---- MODULE Spec2Model ----
(***************************************************************************)
(* log-pulse: a log tailing agent that matches incoming lines against a     *)
(* pattern and starts commands on a match or after a period of silence.     *)
(* The repository holds two generations of the program.  Generation 1 is    *)
(* the Monitor with its LogTrackers (hpcloud/tail), Generation 2 is the     *)
(* Collection with its Collectors (FileBeat prospectors).  A behaviour of   *)
(* this model runs one of the two programs; `generation` says which.        *)
(***************************************************************************)
EXTENDS Integers, Sequences, FiniteSets, TLC

\* ------------------------------------------------------------------ bounds
\* The (positive) timeout period given to entries that have one.
Interval == 2
\* The clock runs from 0 to MaxTime: three periods.
MaxTime == 3 * Interval
\* Number of time.Ticker objects that can be alive per entry at one time.
MaxTickers == 2
\* The longest configuration: the number of entries of a configuration file.
MaxEntries == 2
\* The most harvester workers (one per file) a prospector runs at a time.
MaxWorkers == 2

\* ------------------------------------------------------------- vocabulary
\* Log lines are sequences of characters.
Lines == { <<"M", "a">>, <<"N", "M">> }
\* The pattern of every entry is the anchored prefix pattern ^M.
PatternM == [valid |-> TRUE, prefix |-> <<"M">>]
\* A pattern that regexp.Compile rejects, such as s(3.
PatternBad == [valid |-> FALSE, prefix |-> <<>>]

\* An empty ticker channel; a channel holds at most one tick.
NoTick == 0
NoLine == <<>>

VARIABLES
    generation,      \* 1: Monitor/LogTracker program, 2: Collection/Collector program
    now,             \* the clock
    tickers,         \* per entry: the time.Ticker objects of the Go runtime
    last,            \* the event handled by the latest step and its effects, in order
    firingsSinceMatch,   \* per entry: timer firings handled since the latest handled match
    launchesSinceMatch,  \* per entry: timeout command starts since the latest handled match
    span,            \* per entry: how and when the current span between matches opened
    \* ---- Generation 2
    configs,         \* LogPulseConfig: sequence of CollectorConfig
    rawConfigs,      \* the []*common.Config handed to the prospectors, one per entry
    parseErr,        \* ParseConfigFile returns an error
    collection,      \* what CreateCollection returned: an error or the retained collectors
    cTicker,         \* Collector.ticker (0 is nil)
    cTimeoutChannel, \* Collector.timeoutChannel: the ticker whose C it is (0: a channel that never delivers)
    timedOutOnce,    \* local of Collector.process
    cpc,             \* Collector.process goroutine: "idle", "run", "returned"
    Done,            \* Collector.Done is closed
    Stopped,         \* Collector.Stopped is closed
    prospector,      \* the FileBeat prospector of the collector: "new", "started", "stopping", "stopped"
    worker,          \* per collector and worker: the line its OnEvent call is blocked sending, or NoLine
    wg,              \* Collection.wg counter
    mainPc,          \* position of main()
    sigPc,           \* position of the signal handler goroutine
    \* ---- Generation 1
    config,          \* Monitor.config: sequence of LogConfig
    trackers,        \* Monitor.trackers: the entries whose LogTracker was retained, in order
    ltTicker,        \* LogTracker.ticker (0 is nil)
    ltTimeoutChannel,\* LogTracker.timeoutChannel: the ticker whose C it is (0: never delivers)
    timedOut,        \* the variable captured by the callbacks of genCallbacks
    ltOnClose,       \* LogTracker.OnClose is set (not nil)
    tpc,             \* LogTracker.Track goroutine: "none", "start", "loop", "returned"
    tail,            \* LogTracker.Tail: "none", "open", "cleaned"
    stopSignal,      \* Monitor.stopSignal is closed
    stopped,         \* Monitor.stopped is closed
    monPc,           \* position of the caller of Monitor.Start
    stopPc,          \* position of the caller of Monitor.Stop
    \* ---- configuration parsing
    DefaultProspectorConfig, \* the package variable DefaultProspectorConfig
    data,            \* the configuration file handed to ParseConfigFile
    parsed           \* what ParseConfigFile returned (called FALSE before the call)

gen2vars == <<configs, rawConfigs, parseErr, collection, cTicker, cTimeoutChannel, timedOutOnce, cpc, Done, Stopped,
              prospector, worker, wg, mainPc, sigPc>>
gen1vars == <<config, trackers, ltTicker, ltTimeoutChannel, timedOut, ltOnClose, tpc, tail,
              stopSignal, stopped, monPc, stopPc>>
ghostvars == <<last, firingsSinceMatch, launchesSinceMatch, span>>
parsevars == <<DefaultProspectorConfig, data, parsed>>
vars == <<generation, now, tickers, ghostvars, gen2vars, gen1vars, parsevars>>

\* ------------------------------------------------------- the Go runtime
\* A matcher that forgets the anchor: the prefix may begin anywhere in the text.
MatchString_Unanchored(pattern, text) ==
    \E i \in 1..Len(text) :
        /\ i + Len(pattern.prefix) - 1 <= Len(text)
        /\ SubSeq(text, i, i + Len(pattern.prefix) - 1) = pattern.prefix

\* regexp.MatchString for an anchored prefix pattern.
MatchString(pattern, text) ==
    /\ Len(text) >= Len(pattern.prefix)
    /\ SubSeq(text, 1, Len(pattern.prefix)) = pattern.prefix

FreeTicker == [state |-> "free", period |-> 0, when |-> 0, C |-> NoTick]
EmptyPool == [i \in 1..MaxTickers |-> FreeTicker]

HasFree(pool) == \E i \in 1..MaxTickers : pool[i].state = "free"
FreeId(pool) == CHOOSE i \in 1..MaxTickers :
                    /\ pool[i].state = "free"
                    /\ \A j \in 1..(i - 1) : pool[j].state # "free"

\* time.NewTicker(d) at time t: a running ticker with an empty channel of
\* capacity one, first due at t + d.
NewTicker(pool, id, d, t) ==
    [pool EXCEPT ![id] = [state |-> "running", period |-> d, when |-> t + d, C |-> NoTick]]

\* Ticker.Stop(): no more ticks are sent; the channel is not closed or drained.
TickerStop(pool, id) ==
    [pool EXCEPT ![id] = [@ EXCEPT !.state = "stopped", !.when = 0]]

\* A stopped ticker that nothing references any more is garbage.
Collect(pool, refs) ==
    [i \in 1..MaxTickers |->
        IF pool[i].state = "stopped" /\ i \notin refs THEN FreeTicker ELSE pool[i]]

\* The runtime timer of a ticker runs at time t: a non-blocking send on the
\* channel (the tick is dropped when one is still buffered), and the timer is
\* re-armed for the next period boundary after t.
SendTime(tk, t) ==
    [tk EXCEPT !.C = 1,
               !.when = tk.when + tk.period * (1 + ((t - tk.when) \div tk.period))]

\* ------------------------------------------------------------- effects
Effect(op, cmd, ok) == [op |-> op, cmd |-> cmd, ok |-> ok]
Did(op) == Effect(op, "", TRUE)
\* CommandConfig.Start: exec.Cmd.Start either launches the program or fails;
\* the error is returned and every caller drops it.
CommandStart(cmd, ok) == Effect("Start", cmd, ok)

Event(gen, unit, kind, line, effects) ==
    [gen |-> gen, unit |-> unit, kind |-> kind, line |-> line, effects |-> effects]
NoEvent == Event(0, 0, "none", NoLine, <<>>)

Starts(effects, cmd) ==
    Cardinality({i \in DOMAIN effects : effects[i].op = "Start" /\ effects[i].cmd = cmd})
Calls(effects, op) ==
    Cardinality({i \in DOMAIN effects : effects[i].op = op})

\* A handled match opens a new span; it is recorded whether a timer firing of
\* the span it closes went by without a start of the configured timeout command.
MatchSpan(firings, launches, configured, t) ==
    [open |-> IF configured /\ firings > launches THEN "matchAfterSuppress" ELSE "match",
     at |-> t]

\* ------------------------------------------------------- Generation 2
CommandPrograms == {"", "touch"}

CollectorConfigs ==
    [Pattern : {PatternM},
     Command : [Program : CommandPrograms],
     Timeout : [Command : [Program : CommandPrograms],
                Interval : {-1, 0, Interval},
                Once : BOOLEAN]]

\* Collection.collectors: the entries whose Collector was retained.
Collectors == {collection.collectors[i] : i \in DOMAIN collection.collectors}
\* The harvester workers of the prospector of collector c.
Workers(c) == DOMAIN worker[c]

\* NewCollector: the ticker is armed at construction when an interval is set.
NewCollectorTickers(cc, t) ==
    IF cc.Timeout.Interval > 0
    THEN NewTicker(EmptyPool, 1, cc.Timeout.Interval, t)
    ELSE EmptyPool
\* A constructor that also takes an interval of 0 to call for a ticker.
NewCollectorTicker_ZeroArms(cc) == IF cc.Timeout.Interval >= 0 THEN 1 ELSE 0

NewCollectorTicker(cc) == IF cc.Timeout.Interval > 0 THEN 1 ELSE 0

\* NewCollector succeeds when the pattern compiles and NewProspector accepts
\* the raw configuration.
NewCollector(cc, rawConfig) == cc.Pattern.valid /\ rawConfig.valid

\* No CreateCollection has returned yet.
NoCollection == [err |-> "unset", collectors |-> <<>>]

\* A CreateCollection that gives up at the first entry that fails.
CreateCollection_StopsAtFailure(cfgs, raws) ==
    IF Len(cfgs) # Len(raws)
    THEN [err |-> "LogPulseConfig and rawConfigs must contain the same number of elements",
          collectors |-> <<>>]
    ELSE IF \E i \in DOMAIN cfgs : ~NewCollector(cfgs[i], raws[i])
         THEN [err |-> "No Collectors created", collectors |-> <<>>]
         ELSE IF Len(cfgs) = 0
              THEN [err |-> "No Collectors created", collectors |-> <<>>]
              ELSE [err |-> "", collectors |-> [i \in 1..Len(cfgs) |-> i]]

\* CreateCollection: the collectors are the entries, in order, whose
\* NewCollector returned no error.
CreateCollection(cfgs, raws) ==
    IF Len(cfgs) # Len(raws)
    THEN [err |-> "LogPulseConfig and rawConfigs must contain the same number of elements",
          collectors |-> <<>>]
    ELSE LET Created(i) == NewCollector(cfgs[i], raws[i])
             collectors == SelectSeq([i \in 1..Len(cfgs) |-> i], Created)
         IN  IF Len(collectors) = 0
             THEN [err |-> "No Collectors created", collectors |-> <<>>]
             ELSE [err |-> "", collectors |-> collectors]

\* A resetTimeout that leaves the running ticker alone.
resetTimeout_NoRearm(ts, interval, t) == ts

\* A resetTimeout that arms the replacement without stopping the old ticker.
resetTimeout_OldKeepsRunning(ts, interval, t) ==
    IF ts.ticker # 0
    THEN LET id == FreeId(ts.pool)
         IN  [ticker |-> id,
              timeoutChannel |-> id,
              pool |-> Collect(NewTicker(ts.pool, id, interval, t), {id})]
    ELSE ts

\* Collector.resetTimeout on the timer state [ticker, timeoutChannel, pool].
resetTimeout(ts, interval, t) ==
    IF ts.ticker # 0
    THEN LET halted == TickerStop(ts.pool, ts.ticker)
             id == FreeId(halted)
         IN  [ticker |-> id,
              timeoutChannel |-> id,
              pool |-> Collect(NewTicker(halted, id, interval, t), {id})]
    ELSE ts

resetTimeoutPossible(ts) == ts.ticker # 0 => HasFree(TickerStop(ts.pool, ts.ticker))

\* A guard that does not look at timeout.once.
RunsTimeoutCommand_IgnoresOnce(cc, timedOutOnce_) ==
    cc.Timeout.Command.Program # ""

\* A guard that suppresses repeats whether or not timeout.once is set.
RunsTimeoutCommand_AlwaysOnce(cc, timedOutOnce_) ==
    /\ cc.Timeout.Command.Program # ""
    /\ ~timedOutOnce_

\* A guard that does not look at the program of the timeout command.
RunsTimeoutCommand_NoProgramCheck(cc, timedOutOnce_) ==
    ~(timedOutOnce_ /\ cc.Timeout.Once)

\* The guard of the timeout command in Collector.process.
RunsTimeoutCommand(cc, timedOutOnce_) ==
    /\ cc.Timeout.Command.Program # ""
    /\ ~(timedOutOnce_ /\ cc.Timeout.Once)

\* A guard that looks at the program of the wrong command.
RunsMatchCommand_WrongCommand(cc) == cc.Timeout.Command.Program # ""

\* The guard of the match command in Collector.process.
RunsMatchCommand(cc) == cc.Command.Program # ""

\* A match that leaves timedOutOnce as it was.
timedOutOnceOnMatch_Kept(flag) == flag

\* Collector.process on a matching line: timedOutOnce = false.
timedOutOnceOnMatch(flag) == FALSE

\* Collector.process on a timer firing: timedOutOnce = true.
timedOutOnceOnTimeout(flag) == TRUE

TimerState(c) == [ticker |-> cTicker[c], timeoutChannel |-> cTimeoutChannel[c], pool |-> tickers[c]]

InitGen2 ==
    /\ configs \in {<<cf>> : cf \in CollectorConfigs}
    /\ rawConfigs = [c \in DOMAIN configs |-> [valid |-> TRUE]]
    /\ parseErr = FALSE
    /\ collection = CreateCollection(configs, rawConfigs)
    /\ cTicker = [c \in DOMAIN configs |-> NewCollectorTicker(configs[c])]
    /\ cTimeoutChannel = cTicker
    /\ tickers = [c \in DOMAIN configs |-> NewCollectorTickers(configs[c], 0)]
    /\ timedOutOnce = [c \in DOMAIN configs |-> FALSE]
    /\ cpc = [c \in DOMAIN configs |-> "idle"]
    /\ Done = [c \in DOMAIN configs |-> FALSE]
    /\ Stopped = [c \in DOMAIN configs |-> FALSE]
    /\ prospector = [c \in DOMAIN configs |-> "new"]
    /\ worker = [c \in DOMAIN configs |-> [w \in 1..1 |-> NoLine]]
    /\ wg = 0
    /\ mainPc = [at |-> "notify", i |-> 1]
    /\ sigPc = [at |-> "wait", i |-> 1]

NoGen2 ==
    /\ configs = <<>> /\ rawConfigs = <<>> /\ parseErr = FALSE /\ collection = NoCollection
    /\ cTicker = <<>> /\ cTimeoutChannel = <<>> /\ timedOutOnce = <<>>
    /\ cpc = <<>> /\ Done = <<>> /\ Stopped = <<>> /\ prospector = <<>> /\ worker = <<>>
    /\ wg = 0
    /\ mainPc = [at |-> "none", i |-> 1]
    /\ sigPc = [at |-> "none", i |-> 1]

\* ------------------------------------------------------- Generation 1
LogConfigs ==
    [FileOpens : {TRUE},
     Pattern : {PatternM},
     Command : [Program : CommandPrograms],
     Timeout : {-1, 0, Interval},
     TimeoutOnce : BOOLEAN,
     TimeoutCommand : [Program : CommandPrograms]]

Trackers == DOMAIN config

\* A createTracker that does not look at the outcome of regexp.Compile.
createTracker_IgnoresPattern(logConfig) == logConfig.FileOpens

\* Monitor.createTracker yields a LogTracker when the tail opens and the
\* pattern compiles.
createTracker(logConfig) == logConfig.FileOpens /\ logConfig.Pattern.valid

\* createTracker opens the tail first; a pattern that fails to compile
\* afterwards leaves the tail open.
TailFile(logConfig) == IF logConfig.FileOpens THEN "open" ELSE "none"

\* A ResetTimeout that leaves the running ticker alone.
ResetTimeout_NoRearm(ts, timeout, t) == ts

\* LogTracker.ResetTimeout on the timer state [ticker, timeoutChannel, pool].
ResetTimeout(ts, timeout, t) ==
    IF ts.ticker # 0
    THEN LET halted == TickerStop(ts.pool, ts.ticker)
             id == FreeId(halted)
         IN  [ticker |-> id,
              timeoutChannel |-> id,
              pool |-> Collect(NewTicker(halted, id, timeout, t), {id})]
    ELSE ts

\* The guard of the match command in the onPattern callback.
OnPatternRuns(logConfig) == logConfig.Command.Program # ""

\* A guard that does not look at timeoutOnce.
OnTimeoutRuns_IgnoresOnce(logConfig, timedOut_) ==
    logConfig.TimeoutCommand.Program # ""

\* A guard that suppresses repeats whether or not timeoutOnce is set.
OnTimeoutRuns_AlwaysOnce(logConfig, timedOut_) ==
    /\ logConfig.TimeoutCommand.Program # ""
    /\ ~timedOut_

\* The guard of the timeout command in the onTimeout callback.
OnTimeoutRuns(logConfig, timedOut_) ==
    /\ logConfig.TimeoutCommand.Program # ""
    /\ ~(timedOut_ /\ logConfig.TimeoutOnce)

\* onPattern: timedOut = false.
timedOutOnPattern(flag) == FALSE

\* onTimeout: timedOut = true.
timedOutOnTimeout(flag) == TRUE

LtTimerState(t) == [ticker |-> ltTicker[t], timeoutChannel |-> ltTimeoutChannel[t], pool |-> tickers[t]]

\* CreateMonitor(config): nothing is tracked before Start.
CreateMonitor(cfgs) ==
    /\ config \in cfgs
    /\ trackers = <<>>
    /\ ltTicker = [t \in DOMAIN config |-> 0]
    /\ ltTimeoutChannel = [t \in DOMAIN config |-> 0]
    /\ tickers = [t \in DOMAIN config |-> EmptyPool]
    /\ timedOut = [t \in DOMAIN config |-> FALSE]
    /\ ltOnClose = [t \in DOMAIN config |-> FALSE]
    /\ tpc = [t \in DOMAIN config |-> "none"]
    /\ tail = [t \in DOMAIN config |-> "none"]
    /\ stopSignal = FALSE
    /\ stopped = FALSE
    /\ monPc = [at |-> "create", i |-> 1]
    /\ stopPc = "idle"

InitGen1 == CreateMonitor({<<lc>> : lc \in LogConfigs})

NoGen1 ==
    /\ config = <<>>
    /\ trackers = <<>>
    /\ ltTicker = <<>> /\ ltTimeoutChannel = <<>> /\ timedOut = <<>> /\ ltOnClose = <<>>
    /\ tpc = <<>> /\ tail = <<>>
    /\ stopSignal = FALSE /\ stopped = FALSE
    /\ monPc = [at |-> "none", i |-> 1]
    /\ stopPc = "none"

\* ------------------------------------------- configuration parsing (Gen 2)
\* A duration is written as a number and a unit; a time.Duration is counted in
\* milliseconds.
Units == {"ms", "s", "h"}

UnitMs(unit) == CASE unit = "ms" -> 1 [] unit = "s" -> 1000 [] unit = "h" -> 3600000 [] OTHER -> 0

ValidDuration(text) == text.unit \in Units

\* The time.Duration a written duration stands for.
ParseDuration(text) == text.n * UnitMs(text.unit)

\* A time.Duration as it is written back into a common.Config.
FormatDuration(d) == [n |-> d, unit |-> "ms"]

ZeroDuration == [n |-> 0, unit |-> "s"]

\* The literal of the package variable DefaultProspectorConfig.
ProspectorDefaults ==
    [Type |-> "log", TailFiles |-> TRUE, Backoff |-> 200, BackoffFactor |-> 1,
     MaxBackoff |-> 1000, ScanFrequency |-> 3000]

\* The config tags of prospectorConfig, as paths of a common.Config.
ScanPaths == {<<"type">>, <<"tail_files">>, <<"backoff">>, <<"backoff_factor">>,
              <<"max_backoff">>, <<"scan_frequency">>}

\* A YAML reader that does not split a dotted key: the key names no field.
KeyPath_DotsUnsplit(under, key) == IF Len(key) = 1 THEN under \o key ELSE <<>>

\* The path of a key of the document: the blocks it is written under, then
\* the key itself, split at its dots.
KeyPath(under, key) == under \o key

\* common.NewConfigWithYAML on one entry of the document: the generic value,
\* a value per path.
NewConfigWithYAML(entry) ==
    [p \in {KeyPath(it.under, it.key) : it \in entry} |->
        (CHOOSE it \in entry : KeyPath(it.under, it.key) = p).value]

Field(rawConfig, path, zero) == IF path \in DOMAIN rawConfig THEN rawConfig[path] ELSE zero

\* raw.Unpack(&config) for one entry: the typed CollectorConfig; a field the
\* entry does not name keeps its zero value, and a duration that does not
\* parse is an error.
UnpackCollectorConfig(rawConfig) ==
    LET interval == Field(rawConfig, <<"timeout", "interval">>, ZeroDuration)
    IN  [err |-> ~ValidDuration(interval),
         config |->
            [Type |-> Field(rawConfig, <<"type">>, ""),
             Paths |-> Field(rawConfig, <<"paths">>, ""),
             Pattern |-> Field(rawConfig, <<"pattern">>, ""),
             Command |-> [Program |-> Field(rawConfig, <<"command", "program">>, "")],
             Timeout |->
                [Command |-> [Program |-> Field(rawConfig, <<"timeout", "command", "program">>, "")],
                 Interval |-> ParseDuration(interval),
                 Once |-> Field(rawConfig, <<"timeout", "once">>, FALSE)]]]

\* rawConfig.Unpack(&conf) for a prospectorConfig: the fields the entry names
\* are written over conf, the others keep what conf held; the validate tags
\* (min=0,nonzero on the durations, min=1 on backoff_factor) make the error.
UnpackProspector(rawConfig, conf) ==
    LET has(k) == <<k>> \in DOMAIN rawConfig
        duration(k, kept) == IF has(k) THEN ParseDuration(rawConfig[<<k>>]) ELSE kept
        unparsed(k) == has(k) /\ ~ValidDuration(rawConfig[<<k>>])
        out == [Type |-> Field(rawConfig, <<"type">>, conf.Type),
                TailFiles |-> Field(rawConfig, <<"tail_files">>, conf.TailFiles),
                Backoff |-> duration("backoff", conf.Backoff),
                BackoffFactor |-> Field(rawConfig, <<"backoff_factor">>, conf.BackoffFactor),
                MaxBackoff |-> duration("max_backoff", conf.MaxBackoff),
                ScanFrequency |-> duration("scan_frequency", conf.ScanFrequency)]
    IN  [err |-> \/ unparsed("backoff") \/ unparsed("max_backoff") \/ unparsed("scan_frequency")
                 \/ out.Backoff <= 0 \/ out.BackoffFactor < 1
                 \/ out.MaxBackoff <= 0 \/ out.ScanFrequency <= 0,
         conf |-> out]

\* rawConfig.Merge(conf): the fields of conf are written into the entry, every
\* other path of the entry is kept.
Merge(rawConfig, conf) ==
    (<<"type">> :> conf.Type) @@ (<<"tail_files">> :> conf.TailFiles) @@
    (<<"backoff">> :> FormatDuration(conf.Backoff)) @@
    (<<"backoff_factor">> :> conf.BackoffFactor) @@
    (<<"max_backoff">> :> FormatDuration(conf.MaxBackoff)) @@
    (<<"scan_frequency">> :> FormatDuration(conf.ScanFrequency)) @@
    rawConfig

\* An overlay that unpacks into the package variable itself.
DefaultAfterUnpack_Shared(default, conf) == conf

\* conf := DefaultProspectorConfig copies the struct: what Unpack(&conf)
\* writes does not reach the package variable.
DefaultAfterUnpack(default, conf) == default

\* The loop of setProspectorDefaults from entry i on; default is what the
\* package variable holds when the entry is reached.
RECURSIVE setProspectorDefaultsFrom(_, _, _)
setProspectorDefaultsFrom(rawArray, i, default) ==
    IF i > Len(rawArray)
    THEN [configs |-> rawArray, err |-> FALSE, default |-> default]
    ELSE LET unpacked == UnpackProspector(rawArray[i], default)
             after == DefaultAfterUnpack(default, unpacked.conf)
         IN  IF unpacked.err
             THEN [configs |-> <<>>, err |-> TRUE, default |-> after]
             ELSE setProspectorDefaultsFrom(
                      [rawArray EXCEPT ![i] = Merge(@, unpacked.conf)], i + 1, after)

setProspectorDefaults(rawArray, default) == setProspectorDefaultsFrom(rawArray, 1, default)

\* What a parser hands back: the zero values and the error on a failure.
ParseResult(typed, rawArray, err, default) ==
    [called |-> TRUE, config |-> typed, rawArray |-> rawArray, err |-> err, default |-> default]

NotParsed == [called |-> FALSE, config |-> <<>>, rawArray |-> <<>>, err |-> FALSE]

\* ParseConfig: the document is read, unpacked into the typed array, unwound
\* into the raw array, and the raw array is overlaid on the defaults; the
\* first error ends it with nil, nil, err.
ParseConfig(document, default) ==
    LET raw == [i \in DOMAIN document.yaml |-> NewConfigWithYAML(document.yaml[i])]
        typed == [i \in DOMAIN raw |-> UnpackCollectorConfig(raw[i])]
        overlaid == setProspectorDefaults(raw, default)
    IN  IF ~document.wellFormed THEN ParseResult(<<>>, <<>>, TRUE, default)
        ELSE IF \E i \in DOMAIN typed : typed[i].err THEN ParseResult(<<>>, <<>>, TRUE, default)
        ELSE IF overlaid.err THEN ParseResult(<<>>, <<>>, TRUE, overlaid.default)
        ELSE ParseResult([i \in DOMAIN typed |-> typed[i].config], overlaid.configs,
                         FALSE, overlaid.default)

\* ParseConfigFile (Generation 2): a file that cannot be read is an error.
ParseConfigFile(file, default) ==
    IF ~file.readable THEN ParseResult(<<>>, <<>>, TRUE, default)
    ELSE ParseConfig(file, default)

\* ------------------------------------------- configuration parsing (Gen 1)
\* yaml.Unmarshal(data, &config): a document that is not YAML is refused
\* before anything is decoded; a scalar that does not fit its field is
\* reported once the whole document has been decoded, the field left zero.
Unmarshal(file, out) ==
    IF ~file.wellFormed THEN [config |-> out, err |-> TRUE]
    ELSE [config |-> [i \in DOMAIN file.yaml |->
                         [File |-> file.yaml[i].file,
                          Pattern |-> file.yaml[i].pattern,
                          Timeout |-> IF file.yaml[i].timeout.int
                                      THEN file.yaml[i].timeout.n ELSE 0]],
          err |-> \E i \in DOMAIN file.yaml : ~file.yaml[i].timeout.int]

\* ParseConfigFile (Generation 1): the named results config and err are
\* returned as they stand after ReadFile or after Unmarshal.
ParseConfigFileGen1(file) ==
    LET empty == <<>>
        decoded == Unmarshal(file, empty)
    IN  IF ~file.readable
        THEN [called |-> TRUE, config |-> empty, rawArray |-> <<>>, err |-> TRUE]
        ELSE [called |-> TRUE, config |-> decoded.config, rawArray |-> <<>>,
              err |-> decoded.err]

NoData == [readable |-> FALSE, wellFormed |-> FALSE, yaml |-> <<>>]

\* No configuration file is being parsed.
NoParse ==
    /\ DefaultProspectorConfig = ProspectorDefaults
    /\ data = NoData
    /\ parsed = NotParsed

Init ==
    /\ NoParse
    /\ now = 0
    /\ last = NoEvent
    /\ \/ generation = 1 /\ InitGen1 /\ NoGen2
       \/ generation = 2 /\ InitGen2 /\ NoGen1
    /\ firingsSinceMatch = [e \in DOMAIN tickers |-> 0]
    /\ launchesSinceMatch = [e \in DOMAIN tickers |-> 0]
    /\ span = [e \in DOMAIN tickers |-> [open |-> "start", at |-> 0]]

\* The process runs: main has not returned and no goroutine has panicked.
Alive == mainPc.at \notin {"exited", "exit1", "panic"} /\ sigPc.at # "panic"

\* Time passes, up to a limit.
Tick(limit) ==
    /\ now < limit
    /\ now' = now + 1
    /\ last' = NoEvent
    /\ UNCHANGED <<generation, parsevars, tickers, firingsSinceMatch, launchesSinceMatch, span, gen2vars, gen1vars>>

\* Time passes.
Advance == Tick(MaxTime)

\* The runtime delivers a due tick of a running ticker.
TickerFire(e, id) ==
    /\ Alive
    /\ tickers[e][id].state = "running"
    /\ now >= tickers[e][id].when
    /\ tickers' = [tickers EXCEPT ![e][id] = SendTime(@, now)]
    /\ last' = NoEvent
    /\ UNCHANGED <<generation, parsevars, now, firingsSinceMatch, launchesSinceMatch, span, gen2vars, gen1vars>>

\* ---- the harvester side of a Collector
\* The events a harvester hands to the outleter.
StrMessage(s) == [nil |-> FALSE, hasMessage |-> TRUE, isString |-> TRUE, str |-> s]
Events ==
    {[nil |-> TRUE, hasMessage |-> FALSE, isString |-> FALSE, str |-> NoLine],
     [nil |-> FALSE, hasMessage |-> FALSE, isString |-> FALSE, str |-> NoLine],
     [nil |-> FALSE, hasMessage |-> TRUE, isString |-> FALSE, str |-> NoLine]}
    \cup {StrMessage(s) : s \in Lines}

\* A handler that forwards whatever is under the key "message".
Forwards_AnyMessage(ev) == ~ev.nil /\ ev.hasMessage

\* CollectorOutleter.OnEvent forwards the message of an event that has one
\* and whose message is a string.
Forwards(ev) == ~ev.nil /\ ev.hasMessage /\ ev.isString

\* The values OnEvent puts on outlet.lines for an event.
OnEventSends(ev) == IF Forwards(ev) THEN <<ev.str>> ELSE <<>>

\* The value OnEvent returns: true, at once when nothing is forwarded and
\* after the send otherwise.
OnEventReturns(ev) == TRUE

\* A worker calls OnEvent: it blocks sending on the unbuffered lines channel,
\* or returns true at once when there is nothing to forward.
OnEvent(c, w, ev) ==
    /\ Alive
    /\ generation = 2
    /\ prospector[c] = "started"
    /\ worker[c][w] = NoLine
    /\ worker' = [worker EXCEPT ![c][w] =
                     IF OnEventSends(ev) # <<>> THEN OnEventSends(ev)[1] ELSE NoLine]
    /\ last' = [gen |-> 2, unit |-> c, kind |-> "OnEvent", line |-> NoLine, effects |-> <<>>,
                worker |-> w, ev |-> ev, sent |-> OnEventSends(ev),
                accepted |-> OnEventReturns(ev)]
    /\ UNCHANGED <<generation, parsevars, now, tickers, firingsSinceMatch, launchesSinceMatch, span,
                   configs, rawConfigs, parseErr, collection,
                   cTicker, cTimeoutChannel, timedOutOnce, cpc, Done, Stopped,
                   prospector, wg, mainPc, sigPc, gen1vars>>

\* ---- Collector.process, one action per case of the select
\* A run loop that gives up when a command could not be started.
LoopAfterStart_FailureReturns(pc, ok) == IF ok THEN pc ELSE "returned"

\* The run loop after a call of Start: the error Start returns is dropped,
\* the loop is where it was.
LoopAfterStart(pc, ok) == pc

\* A receive that always takes what the first outleter is sending.
Received_FromFirstOutleter(c, w) == worker[c][1]

\* msg := <-collector.lines, paired with the send of outleter w: every
\* outleter of the collector sends on the one channel collector.lines.
Received(c, w) == worker[c][w]

\* case msg := <-collector.lines
CLine(c, w, ok) ==
    /\ Alive
    /\ generation = 2
    /\ cpc[c] = "run"
    /\ worker[c][w] # NoLine
    /\ LET msg == Received(c, w)
           matches == MatchString(configs[c].Pattern, msg)
           ts == resetTimeout(TimerState(c), configs[c].Timeout.Interval, now)
       IN  /\ matches => resetTimeoutPossible(TimerState(c))
           /\ worker' = [worker EXCEPT ![c][w] = NoLine]
           /\ IF matches
              THEN /\ cTicker' = [cTicker EXCEPT ![c] = ts.ticker]
                   /\ cTimeoutChannel' = [cTimeoutChannel EXCEPT ![c] = ts.timeoutChannel]
                   /\ tickers' = [tickers EXCEPT ![c] = ts.pool]
                   /\ timedOutOnce' = [timedOutOnce EXCEPT ![c] = timedOutOnceOnMatch(@)]
                   /\ firingsSinceMatch' = [firingsSinceMatch EXCEPT ![c] = 0]
                   /\ launchesSinceMatch' = [launchesSinceMatch EXCEPT ![c] = 0]
                   /\ span' = [span EXCEPT ![c] =
                                  MatchSpan(firingsSinceMatch[c], launchesSinceMatch[c],
                                            configs[c].Timeout.Command.Program # "", now)]
                   /\ cpc' = [cpc EXCEPT ![c] = IF RunsMatchCommand(configs[c])
                                                 THEN LoopAfterStart(@, ok) ELSE @]
                   /\ last' = [worker |-> w] @@
                              Event(2, c, "line", msg,
                                    <<Did("resetTimeout")>> \o
                                    (IF RunsMatchCommand(configs[c])
                                     THEN <<CommandStart("command", ok)>> ELSE <<>>))
              ELSE /\ last' = [worker |-> w] @@ Event(2, c, "line", msg, <<>>)
                   /\ UNCHANGED <<cTicker, cTimeoutChannel, tickers, timedOutOnce,
                                  firingsSinceMatch, launchesSinceMatch, span, cpc>>
    /\ UNCHANGED <<generation, parsevars, now, configs, rawConfigs, parseErr, collection,
                   Done, Stopped, prospector, wg, mainPc, sigPc, gen1vars>>

\* case t := <-collector.timeoutChannel
CTimeout(c, ok) ==
    /\ Alive
    /\ generation = 2
    /\ cpc[c] = "run"
    /\ cTimeoutChannel[c] # 0
    /\ tickers[c][cTimeoutChannel[c]].C # NoTick
    /\ LET runs == RunsTimeoutCommand(configs[c], timedOutOnce[c])
       IN  /\ tickers' = [tickers EXCEPT ![c][cTimeoutChannel[c]].C = NoTick]
           /\ timedOutOnce' = [timedOutOnce EXCEPT ![c] = timedOutOnceOnTimeout(@)]
           /\ firingsSinceMatch' = [firingsSinceMatch EXCEPT ![c] = @ + 1]
           /\ launchesSinceMatch' = [launchesSinceMatch EXCEPT ![c] = @ + (IF runs THEN 1 ELSE 0)]
           /\ cpc' = [cpc EXCEPT ![c] = IF runs THEN LoopAfterStart(@, ok) ELSE @]
           /\ last' = Event(2, c, "timer", NoLine,
                            IF runs THEN <<CommandStart("timeout.command", ok)>> ELSE <<>>)
    /\ UNCHANGED <<generation, parsevars, now, span, configs, rawConfigs, parseErr, collection,
                   cTicker, cTimeoutChannel, Done, Stopped,
                   prospector, worker, wg, mainPc, sigPc, gen1vars>>

\* case <-collector.Done, and the deferred close(collector.Stopped)
CDone(c) ==
    /\ Alive
    /\ generation = 2
    /\ cpc[c] = "run"
    /\ Done[c]
    /\ cpc' = [cpc EXCEPT ![c] = "returned"]
    /\ Stopped' = [Stopped EXCEPT ![c] = TRUE]
    /\ last' = Event(2, c, "done", NoLine, <<Did("close(Stopped)")>>)
    /\ UNCHANGED <<generation, parsevars, now, tickers, firingsSinceMatch, launchesSinceMatch, span,
                   configs, rawConfigs, parseErr, collection,
                   cTicker, cTimeoutChannel, timedOutOnce, Done,
                   prospector, worker, wg, mainPc, sigPc, gen1vars>>

\* ---- main() and Collection.Start / LetRun
G2Frame == <<generation, parsevars, now, firingsSinceMatch, launchesSinceMatch, span,
             configs, rawConfigs, parseErr, collection, gen1vars>>

\* The collector Collection.Start is at, and the one Collection.Stop is at.
Starting == collection.collectors[mainPc.i]
Stopping == collection.collectors[sigPc.i]

\* A Wait that returns whatever the counter is.
WaitReturns_NoWait(counter) == TRUE

\* sync.WaitGroup.Wait returns when the counter is zero.
WaitReturns(counter) == counter = 0

\* A receive that does not wait for the channel to be closed.
StoppedReceived_NoWait(closed) == TRUE

\* <-collector.Stopped returns once Stopped is closed.
StoppedReceived(closed) == closed

\* A main that goes on after a failed CreateCollection.
MainAfterCreate_IgnoresError(err) == [at |-> "notify", i |-> 1]

\* main after CreateCollection: os.Exit(1) on an error.
MainAfterCreate(err) == IF err # "" THEN [at |-> "exit1", i |-> 1] ELSE [at |-> "notify", i |-> 1]

\* ParseConfigFile in main: os.Exit(1) on an error.
MainParse ==
    /\ generation = 2
    /\ mainPc.at = "parse"
    /\ mainPc' = IF parseErr THEN [at |-> "exit1", i |-> 1] ELSE [at |-> "create", i |-> 1]
    /\ last' = NoEvent
    /\ UNCHANGED <<G2Frame, tickers, cTicker, cTimeoutChannel, timedOutOnce, cpc, Done,
                   Stopped, prospector, worker, wg, sigPc>>

\* The run of CreateCollection over the entries: NewCollector is called for
\* every entry when the lengths agree; it arms the ticker of an entry whose
\* pattern compiles before it asks for the prospector, and the collector is
\* kept when the prospector is created too.
CreateCollectionRuns ==
    LET made == CreateCollection(configs, rawConfigs)
        kept == {made.collectors[i] : i \in DOMAIN made.collectors}
        armed(c) == Len(configs) = Len(rawConfigs) /\ configs[c].Pattern.valid
    IN  /\ collection' = made
        /\ tickers' = [c \in DOMAIN configs |->
                          IF armed(c) THEN NewCollectorTickers(configs[c], now) ELSE EmptyPool]
        /\ cTicker' = [c \in DOMAIN configs |->
                          IF c \in kept THEN NewCollectorTicker(configs[c]) ELSE 0]
        /\ cTimeoutChannel' = [c \in DOMAIN configs |->
                                  IF c \in kept THEN NewCollectorTicker(configs[c]) ELSE 0]
        /\ prospector' = [c \in DOMAIN configs |-> IF c \in kept THEN "new" ELSE "none"]

\* CreateCollection in main: os.Exit(1) on an error.
MainCreate ==
    /\ generation = 2
    /\ mainPc.at = "create"
    /\ CreateCollectionRuns
    /\ mainPc' = MainAfterCreate(CreateCollection(configs, rawConfigs).err)
    /\ last' = NoEvent
    /\ UNCHANGED <<generation, parsevars, now, firingsSinceMatch, launchesSinceMatch, span,
                   configs, rawConfigs, parseErr, gen1vars,
                   timedOutOnce, cpc, Done, Stopped, worker, wg, sigPc>>

\* CreateCollection called by another caller than main, as TestCollection does.
CallCreateCollection ==
    /\ generation = 2
    /\ mainPc.at = "call"
    /\ CreateCollectionRuns
    /\ mainPc' = [at |-> "called", i |-> 1]
    /\ last' = NoEvent
    /\ UNCHANGED <<generation, parsevars, now, firingsSinceMatch, launchesSinceMatch, span,
                   configs, rawConfigs, parseErr, gen1vars,
                   timedOutOnce, cpc, Done, Stopped, worker, wg, sigPc>>

\* go func() { s := <-sigs; ...; collection.Stop() }() and signal.Notify
MainNotify ==
    /\ Alive /\ generation = 2
    /\ mainPc.at = "notify"
    /\ mainPc' = [at |-> "goProcess", i |-> 1]
    /\ last' = NoEvent
    /\ UNCHANGED <<G2Frame, tickers, cTicker, cTimeoutChannel, timedOutOnce, cpc, Done,
                   Stopped, prospector, worker, wg, sigPc>>

\* Collector.Start: go collector.process()
StartGoProcess ==
    /\ Alive /\ generation = 2
    /\ mainPc.at = "goProcess"
    /\ IF mainPc.i \in DOMAIN collection.collectors
       THEN /\ cpc' = [cpc EXCEPT ![Starting] = "run"]
            /\ mainPc' = [mainPc EXCEPT !.at = "prospectorStart"]
       ELSE /\ mainPc' = [at |-> "letRun", i |-> 1]
            /\ UNCHANGED cpc
    /\ last' = NoEvent
    /\ UNCHANGED <<G2Frame, tickers, cTicker, cTimeoutChannel, timedOutOnce, Done,
                   Stopped, prospector, worker, wg, sigPc>>

\* Collector.Start: collector.prospector.Start()
StartProspector ==
    /\ Alive /\ generation = 2
    /\ mainPc.at = "prospectorStart"
    /\ prospector' = [prospector EXCEPT ![Starting] = IF @ = "new" THEN "started" ELSE @]
    /\ mainPc' = [mainPc EXCEPT !.at = "wgAdd"]
    /\ last' = NoEvent
    /\ UNCHANGED <<G2Frame, tickers, cTicker, cTimeoutChannel, timedOutOnce, cpc, Done,
                   Stopped, worker, wg, sigPc>>

\* Collection.Start: collection.wg.Add(1)
StartWgAdd ==
    /\ Alive /\ generation = 2
    /\ mainPc.at = "wgAdd"
    /\ wg' = wg + 1
    /\ mainPc' = [at |-> "goProcess", i |-> mainPc.i + 1]
    /\ last' = NoEvent
    /\ UNCHANGED <<G2Frame, tickers, cTicker, cTimeoutChannel, timedOutOnce, cpc, Done,
                   Stopped, prospector, worker, sigPc>>

\* Collection.LetRun: collection.wg.Wait(), then main returns
LetRun ==
    /\ Alive /\ generation = 2
    /\ mainPc.at = "letRun"
    /\ WaitReturns(wg)
    /\ mainPc' = [mainPc EXCEPT !.at = "exited"]
    /\ last' = NoEvent
    /\ UNCHANGED <<G2Frame, tickers, cTicker, cTimeoutChannel, timedOutOnce, cpc, Done,
                   Stopped, prospector, worker, wg, sigPc>>

\* ---- the signal handler goroutine and Collection.Stop
\* s := <-sigs
Signal ==
    /\ Alive /\ generation = 2
    /\ mainPc.at \in {"goProcess", "prospectorStart", "wgAdd", "letRun"}
    /\ sigPc.at = "wait"
    /\ sigPc' = [at |-> "prospectorStop", i |-> 1]
    /\ last' = NoEvent
    /\ UNCHANGED <<G2Frame, tickers, cTicker, cTimeoutChannel, timedOutOnce, cpc, Done,
                   Stopped, prospector, worker, wg, mainPc>>

\* A handler that goes back to reading sigs when Collection.Stop has returned.
HandlerAfterStop_ReadsAgain == [at |-> "wait", i |-> 1]

\* The handler goroutine reads sigs once: it ends when Collection.Stop returns.
HandlerAfterStop == [at |-> "done", i |-> 1]

\* Collector.Stop: collector.prospector.Stop() is called ...
StopProspector ==
    /\ Alive /\ generation = 2
    /\ sigPc.at = "prospectorStop"
    /\ IF sigPc.i \in DOMAIN collection.collectors
       THEN /\ prospector' = [prospector EXCEPT ![Stopping] = "stopping"]
            /\ sigPc' = [sigPc EXCEPT !.at = "prospectorWait"]
       ELSE /\ sigPc' = HandlerAfterStop
            /\ UNCHANGED prospector
    /\ last' = NoEvent
    /\ UNCHANGED <<G2Frame, tickers, cTicker, cTimeoutChannel, timedOutOnce, cpc, Done,
                   Stopped, worker, wg, mainPc>>

\* A prospector whose Stop returns while workers are still in OnEvent.
ProspectorStopReturns_NoWait(sending) == TRUE

\* prospector.Stop() blocks until all workers have shut down: none of them
\* is in OnEvent any more.
ProspectorStopReturns(sending) == sending = {}

\* ... and returns when every harvester worker has shut down
StopProspectorWait ==
    /\ Alive /\ generation = 2
    /\ sigPc.at = "prospectorWait"
    /\ ProspectorStopReturns({w \in Workers(Stopping) : worker[Stopping][w] # NoLine})
    /\ prospector' = [prospector EXCEPT ![Stopping] = "stopped"]
    /\ sigPc' = [sigPc EXCEPT !.at = "closeDone"]
    /\ last' = NoEvent
    /\ UNCHANGED <<G2Frame, tickers, cTicker, cTimeoutChannel, timedOutOnce, cpc, Done,
                   Stopped, worker, wg, mainPc>>

\* Collector.Stop: close(collector.Done)
StopCloseDone ==
    /\ Alive /\ generation = 2
    /\ sigPc.at = "closeDone"
    /\ Done' = [Done EXCEPT ![Stopping] = TRUE]
    /\ sigPc' = [sigPc EXCEPT !.at = "waitStopped"]
    /\ last' = NoEvent
    /\ UNCHANGED <<G2Frame, tickers, cTicker, cTimeoutChannel, timedOutOnce, cpc,
                   Stopped, prospector, worker, wg, mainPc>>

\* Collector.Stop: <-collector.Stopped, then the ticker is stopped if there is one
StopWaitStopped ==
    /\ Alive /\ generation = 2
    /\ sigPc.at = "waitStopped"
    /\ StoppedReceived(Stopped[Stopping])
    /\ tickers' = [tickers EXCEPT ![Stopping] =
                      IF cTicker[Stopping] # 0 THEN TickerStop(@, cTicker[Stopping]) ELSE @]
    /\ sigPc' = [sigPc EXCEPT !.at = "wgDone"]
    /\ last' = NoEvent
    /\ UNCHANGED <<G2Frame, cTicker, cTimeoutChannel, timedOutOnce, cpc, Done,
                   Stopped, prospector, worker, wg, mainPc>>

\* Collection.Stop: collection.wg.Done(); a negative counter panics
StopWgDone ==
    /\ Alive /\ generation = 2
    /\ sigPc.at = "wgDone"
    /\ wg' = wg - 1
    /\ sigPc' = IF wg - 1 < 0 THEN [sigPc EXCEPT !.at = "panic"]
                ELSE [at |-> "prospectorStop", i |-> sigPc.i + 1]
    /\ last' = NoEvent
    /\ UNCHANGED <<G2Frame, tickers, cTicker, cTimeoutChannel, timedOutOnce, cpc, Done,
                   Stopped, prospector, worker, mainPc>>

\* ---- LogTracker.Track
G1Frame == <<generation, parsevars, now, config, ltOnClose, gen2vars>>

\* Track initialises its ticker before entering the loop.
TrackInit(t) ==
    /\ generation = 1
    /\ tpc[t] = "start"
    /\ IF config[t].Timeout > 0
       THEN /\ HasFree(tickers[t])
            /\ LET id == FreeId(tickers[t])
               IN  /\ tickers' = [tickers EXCEPT ![t] = NewTicker(@, id, config[t].Timeout, now)]
                   /\ ltTicker' = [ltTicker EXCEPT ![t] = id]
                   /\ ltTimeoutChannel' = [ltTimeoutChannel EXCEPT ![t] = id]
       ELSE UNCHANGED <<tickers, ltTicker, ltTimeoutChannel>>
    /\ tpc' = [tpc EXCEPT ![t] = "loop"]
    /\ span' = [span EXCEPT ![t] = [open |-> "start", at |-> now]]
    /\ last' = NoEvent
    /\ UNCHANGED <<G1Frame, firingsSinceMatch, launchesSinceMatch, trackers, timedOut, tail,
                   stopSignal, stopped, monPc, stopPc>>

\* A genCallbacks whose callbacks all capture the flag of the first entry.
FlagOf_MonitorWide(t) == t - t + 1

\* genCallbacks declares timedOut anew on every call: the callbacks of an
\* entry capture a flag of their own.
FlagOf(t) == t

\* case line := <-lt.Tail.Lines, with the onPattern callback of genCallbacks
TLine(t, line, ok) ==
    /\ generation = 1
    /\ tpc[t] = "loop"
    /\ LET matches == MatchString(config[t].Pattern, line)
           ts == ResetTimeout(LtTimerState(t), config[t].Timeout, now)
       IN  /\ matches => resetTimeoutPossible(LtTimerState(t))
           /\ IF matches
              THEN /\ ltTicker' = [ltTicker EXCEPT ![t] = ts.ticker]
                   /\ ltTimeoutChannel' = [ltTimeoutChannel EXCEPT ![t] = ts.timeoutChannel]
                   /\ tickers' = [tickers EXCEPT ![t] = ts.pool]
                   /\ timedOut' = [timedOut EXCEPT ![FlagOf(t)] = timedOutOnPattern(@)]
                   /\ firingsSinceMatch' = [firingsSinceMatch EXCEPT ![t] = 0]
                   /\ launchesSinceMatch' = [launchesSinceMatch EXCEPT ![t] = 0]
                   /\ span' = [span EXCEPT ![t] =
                                  MatchSpan(firingsSinceMatch[t], launchesSinceMatch[t],
                                            config[t].TimeoutCommand.Program # "", now)]
                   /\ tpc' = [tpc EXCEPT ![t] = IF OnPatternRuns(config[t])
                                                 THEN LoopAfterStart(@, ok) ELSE @]
                   /\ last' = Event(1, t, "line", line,
                                    <<Did("ResetTimeout"), Did("OnPattern")>> \o
                                    (IF OnPatternRuns(config[t])
                                     THEN <<CommandStart("command", ok)>> ELSE <<>>))
              ELSE /\ last' = Event(1, t, "line", line, <<>>)
                   /\ UNCHANGED <<ltTicker, ltTimeoutChannel, tickers, timedOut,
                                  firingsSinceMatch, launchesSinceMatch, span, tpc>>
    /\ UNCHANGED <<G1Frame, trackers, tail, stopSignal, stopped, monPc, stopPc>>

\* case t := <-lt.timeoutChannel, with the onTimeout callback of genCallbacks
TTimeout(t, ok) ==
    /\ generation = 1
    /\ tpc[t] = "loop"
    /\ ltTimeoutChannel[t] # 0
    /\ tickers[t][ltTimeoutChannel[t]].C # NoTick
    /\ LET runs == OnTimeoutRuns(config[t], timedOut[FlagOf(t)])
       IN  /\ tickers' = [tickers EXCEPT ![t][ltTimeoutChannel[t]].C = NoTick]
           /\ timedOut' = [timedOut EXCEPT ![FlagOf(t)] = timedOutOnTimeout(@)]
           /\ firingsSinceMatch' = [firingsSinceMatch EXCEPT ![t] = @ + 1]
           /\ launchesSinceMatch' = [launchesSinceMatch EXCEPT ![t] = @ + (IF runs THEN 1 ELSE 0)]
           /\ tpc' = [tpc EXCEPT ![t] = IF runs THEN LoopAfterStart(@, ok) ELSE @]
           /\ last' = Event(1, t, "timer", NoLine,
                            <<Did("OnTimeout")>> \o
                            (IF runs THEN <<CommandStart("timeoutCommand", ok)>> ELSE <<>>))
    /\ UNCHANGED <<G1Frame, span, trackers, ltTicker, ltTimeoutChannel, tail,
                   stopSignal, stopped, monPc, stopPc>>

\* A stop case that goes round the loop again.
TrackAfterStop_KeepsLooping == "loop"

\* The stop case of Track ends with return.
TrackAfterStop == "returned"

\* The stop case of Track calls OnClose when it is set.
OnCloseCalls(set) == IF set THEN <<Did("OnClose")>> ELSE <<>>

\* case <-lt.StopSignal
TStop(t) ==
    /\ generation = 1
    /\ tpc[t] = "loop"
    /\ stopSignal
    /\ tpc' = [tpc EXCEPT ![t] = TrackAfterStop]
    /\ last' = Event(1, t, "stop", NoLine, OnCloseCalls(ltOnClose[t]))
    /\ UNCHANGED <<G1Frame, tickers, firingsSinceMatch, launchesSinceMatch, span, trackers,
                   ltTicker, ltTimeoutChannel, timedOut, tail, stopSignal, stopped, monPc, stopPc>>

\* ---- Monitor.Start
\* A Start that waits for the stop signal however many trackers it has.
StartAfterLoop_AlwaysWaits(n) == [at |-> "wait", i |-> 1]

\* After the loop: NoTrackedFilesError when nothing is tracked, else the select.
StartAfterLoop(n) == IF n = 0 THEN [at |-> "error", i |-> 1] ELSE [at |-> "wait", i |-> 1]

\* A cleanup loop that ends after the first tracker.
CleanupOver_AfterFirst(i, n) == i > 1

\* for _, lt := range monitor.trackers ends after the last retained tracker.
CleanupOver(i, n) == i > n

\* One round of the loop over monitor.config: createTracker, go lt.Track(), append.
MonitorCreate ==
    /\ generation = 1
    /\ monPc.at = "create"
    /\ IF monPc.i \in Trackers
       THEN /\ tail' = [tail EXCEPT ![monPc.i] = TailFile(config[monPc.i])]
            /\ IF createTracker(config[monPc.i])
               THEN /\ tpc' = [tpc EXCEPT ![monPc.i] = "start"]
                    /\ trackers' = Append(trackers, monPc.i)
               ELSE UNCHANGED <<tpc, trackers>>
            /\ monPc' = [monPc EXCEPT !.i = @ + 1]
       ELSE /\ monPc' = StartAfterLoop(Len(trackers))
            /\ UNCHANGED <<tail, tpc, trackers>>
    /\ last' = NoEvent
    /\ UNCHANGED <<G1Frame, tickers, firingsSinceMatch, launchesSinceMatch, span,
                   ltTicker, ltTimeoutChannel, timedOut, stopSignal, stopped, stopPc>>

\* case <-monitor.stopSignal
MonitorWait ==
    /\ generation = 1
    /\ monPc.at = "wait"
    /\ stopSignal
    /\ monPc' = [at |-> "cleanup", i |-> 1]
    /\ last' = NoEvent
    /\ UNCHANGED <<G1Frame, tickers, firingsSinceMatch, launchesSinceMatch, span, trackers,
                   ltTicker, ltTimeoutChannel, timedOut, tpc, tail, stopSignal, stopped, stopPc>>

\* A Cleanup that also clears lt.ticker.
TickerAfterCleanup_Cleared(ticker) == ticker - ticker

\* LogTracker.Cleanup stops the ticker and leaves lt.ticker and
\* lt.timeoutChannel as they are.
TickerAfterCleanup(ticker) == ticker

\* A Start that returns from the stop case without closing monitor.stopped.
StoppedAfterCleanup_LeftOpen == FALSE

\* close(monitor.stopped) at the end of the stop case.
StoppedAfterCleanup == TRUE

\* lt.Cleanup() for the next retained tracker, then close(monitor.stopped)
MonitorCleanup ==
    /\ generation = 1
    /\ monPc.at = "cleanup"
    /\ IF ~CleanupOver(monPc.i, Len(trackers))
       THEN LET t == trackers[monPc.i]
            IN  /\ tickers' = [tickers EXCEPT ![t] =
                                  IF ltTicker[t] # 0 THEN TickerStop(@, ltTicker[t]) ELSE @]
                /\ ltTicker' = [ltTicker EXCEPT ![t] = TickerAfterCleanup(@)]
                /\ tail' = [tail EXCEPT ![t] = "cleaned"]
                /\ monPc' = [monPc EXCEPT !.i = @ + 1]
                /\ UNCHANGED stopped
       ELSE /\ stopped' = StoppedAfterCleanup
            /\ monPc' = [at |-> "returned", i |-> 1]
            /\ UNCHANGED <<tickers, ltTicker, tail>>
    /\ last' = NoEvent
    /\ UNCHANGED <<G1Frame, firingsSinceMatch, launchesSinceMatch, span, trackers,
                   ltTimeoutChannel, timedOut, tpc, stopSignal, stopPc>>

\* ---- Monitor.Stop
\* close(monitor.stopSignal)
MonitorStop ==
    /\ generation = 1
    /\ stopPc = "idle"
    /\ stopSignal' = TRUE
    /\ stopPc' = "waitStopped"
    /\ last' = NoEvent
    /\ UNCHANGED <<G1Frame, tickers, firingsSinceMatch, launchesSinceMatch, span, trackers,
                   ltTicker, ltTimeoutChannel, timedOut, tpc, tail, stopped, monPc>>

\* <-monitor.stopped
MonitorStopReturn ==
    /\ generation = 1
    /\ stopPc = "waitStopped"
    /\ stopped
    /\ stopPc' = "returned"
    /\ last' = NoEvent
    /\ UNCHANGED <<G1Frame, tickers, firingsSinceMatch, launchesSinceMatch, span, trackers,
                   ltTicker, ltTimeoutChannel, timedOut, tpc, tail, stopSignal, stopped, monPc>>

Next ==
    \/ Advance
    \/ \E e \in DOMAIN tickers : \E id \in 1..MaxTickers : TickerFire(e, id)
    \/ \E c \in Collectors : \E w \in Workers(c) : \E ev \in Events : OnEvent(c, w, ev)
    \/ \E c \in Collectors : \E w \in Workers(c) : \E ok \in BOOLEAN : CLine(c, w, ok)
    \/ \E c \in Collectors : \E ok \in BOOLEAN : CTimeout(c, ok)
    \/ \E c \in Collectors : CDone(c)
    \/ MainNotify
    \/ StartGoProcess
    \/ StartProspector
    \/ StartWgAdd
    \/ LetRun
    \/ Signal
    \/ StopProspector
    \/ StopProspectorWait
    \/ StopCloseDone
    \/ StopWaitStopped
    \/ StopWgDone
    \/ \E t \in Trackers : TrackInit(t)
    \/ \E t \in Trackers : \E line \in Lines : \E ok \in BOOLEAN : TLine(t, line, ok)
    \/ \E t \in Trackers : \E ok \in BOOLEAN : TTimeout(t, ok)
    \/ \E t \in Trackers : TStop(t)
    \/ MonitorCreate
    \/ MonitorWait
    \/ MonitorCleanup
    \/ MonitorStop
    \/ MonitorStopReturn

Spec == Init /\ [][Next]_vars

\* ---- the Monitor over configurations of up to MaxEntries entries, with
\* entries whose file does not open or whose pattern does not compile
MonitorLogConfigs ==
    [FileOpens : BOOLEAN,
     Pattern : {PatternM, PatternBad},
     Command : [Program : {"touch"}],
     Timeout : {0, Interval},
     TimeoutOnce : {FALSE},
     TimeoutCommand : [Program : {"touch"}]]

ConfigLists(S) == UNION {[1..n -> S] : n \in 0..MaxEntries}

InitMonitor ==
    /\ NoParse
    /\ now = 0
    /\ last = NoEvent
    /\ generation = 1 /\ CreateMonitor(ConfigLists(MonitorLogConfigs)) /\ NoGen2
    /\ firingsSinceMatch = [e \in DOMAIN tickers |-> 0]
    /\ launchesSinceMatch = [e \in DOMAIN tickers |-> 0]
    /\ span = [e \in DOMAIN tickers |-> [open |-> "start", at |-> 0]]

\* Construction and shutdown within one instant of the clock: no tick is
\* delivered.
NextMonitor ==
    \/ \E t \in Trackers : TrackInit(t)
    \/ \E t \in Trackers : \E line \in Lines : \E ok \in BOOLEAN : TLine(t, line, ok)
    \/ \E t \in Trackers : TStop(t)
    \/ MonitorCreate
    \/ MonitorWait
    \/ MonitorCleanup
    \/ MonitorStop
    \/ MonitorStopReturn

SpecMonitor == InitMonitor /\ [][NextMonitor]_vars

\* The Go scheduler runs every runnable goroutine: Monitor.Start goes on
\* whenever it can, and so does a Monitor.Stop that has been called. Whether
\* and when Stop is called is up to the caller.
FairSpecMonitor ==
    /\ SpecMonitor
    /\ WF_vars(MonitorCreate) /\ WF_vars(MonitorWait) /\ WF_vars(MonitorCleanup)
    /\ WF_vars(MonitorStopReturn)

\* ---- main() from its first statement, and CreateCollection called directly,
\* over configurations of up to MaxEntries entries with entries whose pattern
\* does not compile or whose prospector cannot be created
CollectionConfigs ==
    [Pattern : {PatternM, PatternBad},
     Command : [Program : {"touch"}],
     Timeout : [Command : [Program : {"touch"}],
                Interval : {0, Interval},
                Once : {FALSE}]]

RawConfigs == [valid : BOOLEAN]

InitCollection ==
    /\ NoParse
    /\ now = 0
    /\ last = NoEvent
    /\ generation = 2 /\ NoGen1
    /\ configs \in ConfigLists(CollectionConfigs)
    /\ rawConfigs \in ConfigLists(RawConfigs)
    /\ parseErr \in BOOLEAN
    /\ \/ /\ mainPc = [at |-> "parse", i |-> 1]
          /\ Len(rawConfigs) = Len(configs)
          /\ parseErr => configs = <<>>
       \/ /\ mainPc = [at |-> "call", i |-> 1]
          /\ ~parseErr
    /\ collection = NoCollection
    /\ cTicker = [c \in DOMAIN configs |-> 0]
    /\ cTimeoutChannel = [c \in DOMAIN configs |-> 0]
    /\ tickers = [c \in DOMAIN configs |-> EmptyPool]
    /\ timedOutOnce = [c \in DOMAIN configs |-> FALSE]
    /\ cpc = [c \in DOMAIN configs |-> "idle"]
    /\ Done = [c \in DOMAIN configs |-> FALSE]
    /\ Stopped = [c \in DOMAIN configs |-> FALSE]
    /\ prospector = [c \in DOMAIN configs |-> "none"]
    /\ worker = [c \in DOMAIN configs |-> [w \in 1..1 |-> NoLine]]
    /\ wg = 0
    /\ sigPc = [at |-> "wait", i |-> 1]
    /\ firingsSinceMatch = [e \in DOMAIN tickers |-> 0]
    /\ launchesSinceMatch = [e \in DOMAIN tickers |-> 0]
    /\ span = [e \in DOMAIN tickers |-> [open |-> "start", at |-> 0]]

\* Start-up and shutdown within one instant of the clock: no tick is delivered.
NextCollection ==
    \/ MainParse
    \/ MainCreate
    \/ CallCreateCollection
    \/ MainNotify
    \/ StartGoProcess
    \/ StartProspector
    \/ StartWgAdd
    \/ LetRun
    \/ Signal
    \/ StopProspector
    \/ StopProspectorWait
    \/ StopCloseDone
    \/ StopWaitStopped
    \/ StopWgDone
    \/ \E c \in Collectors : \E w \in Workers(c) : \E ev \in Events : OnEvent(c, w, ev)
    \/ \E c \in Collectors : \E w \in Workers(c) : \E ok \in BOOLEAN : CLine(c, w, ok)
    \/ \E c \in Collectors : CDone(c)

SpecCollection == InitCollection /\ [][NextCollection]_vars

\* The Go scheduler runs every runnable goroutine: main, the signal handler
\* and each Collector.process go on whenever they can, and a select picks at
\* random among its ready cases.  The arrival of a signal and of harvester
\* events is up to the environment.
\* ---- one running Collector whose prospector has up to MaxWorkers harvester
\* workers (one per file its paths match), from the return of
\* Collection.Start on, with a timeout command and an interval
HarvesterConfigs ==
    [Pattern : {PatternM},
     Command : [Program : {"touch"}],
     Timeout : [Command : [Program : {"touch"}],
                Interval : {Interval},
                Once : BOOLEAN]]

InitHarvesters ==
    /\ NoParse
    /\ now = 0
    /\ last = NoEvent
    /\ generation = 2 /\ NoGen1
    /\ configs \in {<<cf>> : cf \in HarvesterConfigs}
    /\ rawConfigs = [c \in DOMAIN configs |-> [valid |-> TRUE]]
    /\ parseErr = FALSE
    /\ collection = CreateCollection(configs, rawConfigs)
    /\ cTicker = [c \in DOMAIN configs |-> NewCollectorTicker(configs[c])]
    /\ cTimeoutChannel = cTicker
    /\ tickers = [c \in DOMAIN configs |-> NewCollectorTickers(configs[c], 0)]
    /\ timedOutOnce = [c \in DOMAIN configs |-> FALSE]
    /\ cpc = [c \in DOMAIN configs |-> "run"]
    /\ Done = [c \in DOMAIN configs |-> FALSE]
    /\ Stopped = [c \in DOMAIN configs |-> FALSE]
    /\ prospector = [c \in DOMAIN configs |-> "started"]
    /\ worker = [c \in DOMAIN configs |-> [w \in 1..MaxWorkers |-> NoLine]]
    /\ wg = 1
    /\ mainPc = [at |-> "letRun", i |-> 1]
    /\ sigPc = [at |-> "wait", i |-> 1]
    /\ firingsSinceMatch = [e \in DOMAIN tickers |-> 0]
    /\ launchesSinceMatch = [e \in DOMAIN tickers |-> 0]
    /\ span = [e \in DOMAIN tickers |-> [open |-> "start", at |-> 0]]

\* The clock runs for two periods.
NextHarvesters ==
    \/ Tick(2 * Interval)
    \/ \E e \in DOMAIN tickers : \E id \in 1..MaxTickers : TickerFire(e, id)
    \/ \E c \in Collectors : \E w \in Workers(c) : \E ev \in Events : OnEvent(c, w, ev)
    \/ \E c \in Collectors : \E w \in Workers(c) : \E ok \in BOOLEAN : CLine(c, w, ok)
    \/ \E c \in Collectors : \E ok \in BOOLEAN : CTimeout(c, ok)

SpecHarvesters == InitHarvesters /\ [][NextHarvesters]_vars

FairSpecCollection ==
    /\ SpecCollection
    /\ WF_vars(MainParse) /\ WF_vars(MainCreate) /\ WF_vars(MainNotify)
    /\ WF_vars(StartGoProcess) /\ WF_vars(StartProspector) /\ WF_vars(StartWgAdd)
    /\ WF_vars(LetRun)
    /\ WF_vars(StopProspector) /\ WF_vars(StopProspectorWait) /\ WF_vars(StopCloseDone)
    /\ WF_vars(StopWaitStopped) /\ WF_vars(StopWgDone)
    /\ \A c \in 1..MaxEntries :
           /\ WF_vars(c \in Collectors /\ CDone(c))
           /\ WF_vars(c \in Collectors /\ \E ok \in BOOLEAN : CLine(c, 1, ok))

\* ------------------------------------------------------------ properties
\* The latest step was Collector c's run loop handling an event of this kind.
CHandled(c, kind) == last.gen = 2 /\ last.unit = c /\ last.kind = kind
\* The latest step was LogTracker t's run loop handling an event of this kind.
THandled(t, kind) == last.gen = 1 /\ last.unit = t /\ last.kind = kind
\* The line begins with M, the lines that ^M is meant to match.
BeginsWithM(line) == Len(line) >= 1 /\ line[1] = "M"

TimeoutCommandSet(c) == configs[c].Timeout.Command.Program # ""
TimeoutCommandSet1(t) == config[t].TimeoutCommand.Program # ""

\* C1: a Collector with a timeout command and timeout.once = true starts the
\* timeout command at most once between two consecutively handled matching
\* lines (and between loop start and the first handled matching line),
\* however many timer firings it handles in that span.
C1_OnceAtMostOneStartPerSpan ==
    \A c \in Collectors :
        (configs[c].Timeout.Once /\ TimeoutCommandSet(c)) => launchesSinceMatch[c] <= 1

C1_Witness ==
    \E c \in Collectors :
        /\ configs[c].Timeout.Once /\ TimeoutCommandSet(c)
        /\ span[c].open # "start"
        /\ firingsSinceMatch[c] >= 2
        /\ launchesSinceMatch[c] = 1

\* C2: a Collector with a timeout command and timeout.once = true: the first
\* timer firing handled after a handled matching line starts the timeout
\* command, also when the command was suppressed before that line.
C2_FirstFiringAfterMatchStarts ==
    \A c \in Collectors :
        (/\ CHandled(c, "timer")
         /\ configs[c].Timeout.Once /\ TimeoutCommandSet(c)
         /\ span[c].open # "start"
         /\ firingsSinceMatch[c] = 1)
        => Starts(last.effects, "timeout.command") = 1

C2_Witness ==
    \E c \in Collectors :
        /\ CHandled(c, "timer")
        /\ configs[c].Timeout.Once /\ TimeoutCommandSet(c)
        /\ span[c].open = "matchAfterSuppress"
        /\ firingsSinceMatch[c] = 1
        /\ Starts(last.effects, "timeout.command") = 1

\* C3: a Collector with a timeout command and timeout.once = false starts the
\* timeout command exactly once for every timer firing its run loop handles.
C3_EveryFiringStarts ==
    \A c \in Collectors :
        (CHandled(c, "timer") /\ ~configs[c].Timeout.Once /\ TimeoutCommandSet(c))
        => Starts(last.effects, "timeout.command") = 1

C3_Witness ==
    \E c \in Collectors :
        /\ CHandled(c, "timer") /\ ~configs[c].Timeout.Once /\ TimeoutCommandSet(c)
        /\ firingsSinceMatch[c] >= 2
        /\ launchesSinceMatch[c] = firingsSinceMatch[c]
        /\ Starts(last.effects, "timeout.command") = 1

\* C4: the callbacks of an entry with a timeout command and timeoutOnce = true
\* start the timeout command on the first on-timeout call after tracker start
\* or after the latest on-pattern-match call, and on no other on-timeout call.
C4_OnceStartsOnFirstTimeoutOnly ==
    \A t \in Trackers :
        (THandled(t, "timer") /\ config[t].TimeoutOnce /\ TimeoutCommandSet1(t))
        => /\ Calls(last.effects, "OnTimeout") = 1
           /\ Starts(last.effects, "timeoutCommand") =
                  (IF firingsSinceMatch[t] = 1 THEN 1 ELSE 0)

C4_Witness ==
    \E t \in Trackers :
        /\ THandled(t, "timer") /\ config[t].TimeoutOnce /\ TimeoutCommandSet1(t)
        /\ span[t].open = "matchAfterSuppress"
        /\ firingsSinceMatch[t] = 1
        /\ Starts(last.effects, "timeoutCommand") = 1

\* C5: a LogTracker with timeout > 0 invokes on-timeout once for every timer
\* firing its run loop handles, and with timeoutOnce = false and a timeout
\* command each such invocation starts the timeout command.
C5_OnTimeoutEveryFiring ==
    \A t \in Trackers :
        THandled(t, "timer")
        => /\ config[t].Timeout > 0
           /\ Calls(last.effects, "OnTimeout") = 1
           /\ (~config[t].TimeoutOnce /\ TimeoutCommandSet1(t))
              => Starts(last.effects, "timeoutCommand") = 1

C5_Witness ==
    \E t \in Trackers :
        /\ THandled(t, "timer") /\ ~config[t].TimeoutOnce /\ TimeoutCommandSet1(t)
        /\ firingsSinceMatch[t] >= 2
        /\ launchesSinceMatch[t] = firingsSinceMatch[t]
        /\ Starts(last.effects, "timeoutCommand") = 1

\* C6: a Collector with interval I > 0 that has handled a matching line at
\* time t handles no timer firing, and so starts no timeout command, before
\* t + I.
C6_NoFiringWithinIntervalOfMatch ==
    \A c \in Collectors :
        (CHandled(c, "timer") /\ span[c].open # "start")
        => /\ configs[c].Timeout.Interval > 0
           /\ now >= span[c].at + configs[c].Timeout.Interval

\* A firing is handled exactly I after a match that came one time unit before
\* the replaced ticker was due.
C6_Witness ==
    \E c \in Collectors :
        /\ CHandled(c, "timer") /\ span[c].open # "start"
        /\ span[c].at = Interval - 1
        /\ now = span[c].at + configs[c].Timeout.Interval

\* The timer of tracker t is due: a tick is buffered or the runtime is about
\* to send one.
TimerDue(t) ==
    /\ ltTimeoutChannel[t] # 0
    /\ \/ tickers[t][ltTimeoutChannel[t]].C # NoTick
       \/ tickers[t][ltTimeoutChannel[t]].when <= now

\* C7: a LogTracker with timeout T > 0 does not invoke on-timeout before a
\* full T has elapsed since Track started or since the most recently handled
\* matching line, and once T has elapsed with the ticker still running its
\* first firing is due.
C7_TimeoutAfterFullPeriod ==
    \A t \in Trackers :
        /\ THandled(t, "timer") => now >= span[t].at + config[t].Timeout
        /\ (/\ tpc[t] = "loop" /\ config[t].Timeout > 0
            /\ firingsSinceMatch[t] = 0
            /\ tickers[t][ltTicker[t]].state = "running"
            /\ now >= span[t].at + config[t].Timeout)
           => TimerDue(t)

C7_Witness ==
    \E t \in Trackers :
        /\ THandled(t, "timer")
        /\ span[t].open # "start" /\ span[t].at = Interval - 1
        /\ now = span[t].at + config[t].Timeout

\* C8: handling a line that does not match changes nothing in a Tracker or a
\* Collector: no callback, no command, the same timers with the same firing
\* times and the same already-timed-out flag.
C8_NonMatchingLineChangesNothing ==
    [][(last'.kind = "line" /\ ~BeginsWithM(last'.line))
       => /\ last'.effects = <<>>
          /\ tickers' = tickers
          /\ cTicker' = cTicker /\ cTimeoutChannel' = cTimeoutChannel
          /\ timedOutOnce' = timedOutOnce
          /\ ltTicker' = ltTicker /\ ltTimeoutChannel' = ltTimeoutChannel
          /\ timedOut' = timedOut
          /\ firingsSinceMatch' = firingsSinceMatch
          /\ launchesSinceMatch' = launchesSinceMatch
          /\ span' = span]_vars

\* A non-matching line is handled while a tick is due and the flag is set.
C8_Witness ==
    /\ last.kind = "line" /\ ~BeginsWithM(last.line)
    /\ \/ /\ last.gen = 2 /\ timedOutOnce[last.unit]
          /\ cTimeoutChannel[last.unit] # 0
          /\ tickers[last.unit][cTimeoutChannel[last.unit]].C # NoTick
       \/ /\ last.gen = 1 /\ timedOut[last.unit]
          /\ ltTimeoutChannel[last.unit] # 0
          /\ tickers[last.unit][ltTimeoutChannel[last.unit]].C # NoTick

\* C9: a Collector with a match command starts it exactly once for each line
\* its run loop receives that matches the pattern and never for another line.
C9_MatchCommandOncePerMatchingLine ==
    \A c \in Collectors :
        (CHandled(c, "line") /\ configs[c].Command.Program # "")
        => Starts(last.effects, "command") = (IF BeginsWithM(last.line) THEN 1 ELSE 0)

C9_Witness ==
    \E c \in Collectors :
        /\ CHandled(c, "line") /\ configs[c].Command.Program # ""
        /\ BeginsWithM(last.line)
        /\ Starts(last.effects, "command") = 1

\* C10: a LogTracker invokes on-pattern-match exactly once for every line of
\* the tail that matches, after the timer reset for that line, and never for
\* a line that does not match.
C10_OnPatternOncePerMatchingLine ==
    \A t \in Trackers :
        THandled(t, "line")
        => IF BeginsWithM(last.line)
           THEN /\ Calls(last.effects, "OnPattern") = 1
                /\ Calls(last.effects, "ResetTimeout") = 1
                /\ last.effects[1].op = "ResetTimeout"
                /\ last.effects[2].op = "OnPattern"
                /\ config[t].Timeout > 0
                   => /\ tickers[t][ltTicker[t]].state = "running"
                      /\ tickers[t][ltTicker[t]].when = now + config[t].Timeout
           ELSE Calls(last.effects, "OnPattern") = 0

C10_Witness ==
    \E t \in Trackers :
        /\ THandled(t, "line") /\ BeginsWithM(last.line)
        /\ config[t].Timeout > 0
        /\ now > 0
        /\ Calls(last.effects, "OnPattern") = 1

\* C11: in either generation a command whose program is the empty string is
\* never started, neither by a match nor by a timer firing.
C11_EmptyProgramNeverStarted ==
    /\ \A c \in Collectors :
          last.gen = 2 /\ last.unit = c
          => /\ configs[c].Command.Program = "" => Starts(last.effects, "command") = 0
             /\ configs[c].Timeout.Command.Program = ""
                => Starts(last.effects, "timeout.command") = 0
    /\ \A t \in Trackers :
          last.gen = 1 /\ last.unit = t
          => /\ config[t].Command.Program = "" => Starts(last.effects, "command") = 0
             /\ config[t].TimeoutCommand.Program = ""
                => Starts(last.effects, "timeoutCommand") = 0

\* A first timer firing is handled with no timeout command, after a match was
\* handled with no match command.
C11_Witness ==
    \E c \in Collectors :
        /\ CHandled(c, "timer")
        /\ configs[c].Command.Program = "" /\ configs[c].Timeout.Command.Program = ""
        /\ span[c].open = "match"
        /\ firingsSinceMatch[c] = 1
        /\ last.effects = <<>>

\* C18: OnEvent puts a value on the line stream exactly when the event has a
\* field map with a "message" key whose value is a string, it is that string,
\* once, and the event is reported as accepted in every case.
C18_OnEventForwardsStringMessages ==
    last.kind = "OnEvent"
    => /\ last.sent = (IF ~last.ev.nil /\ last.ev.hasMessage /\ last.ev.isString
                       THEN <<last.ev.str>> ELSE <<>>)
       /\ last.accepted = TRUE
       /\ worker[last.unit][last.worker] =
              (IF last.sent = <<>> THEN NoLine ELSE last.ev.str)

\* An event whose message is not a string is dropped and accepted.
C18_Witness ==
    /\ last.kind = "OnEvent"
    /\ ~last.ev.nil /\ last.ev.hasMessage /\ ~last.ev.isString
    /\ last.sent = <<>>
    /\ last.accepted

\* ---- LogTrackers built and run by their owner, as the tracker tests do:
\* they share one StopSignal, each may have an OnClose, and the owner closes
\* the signal and cleans the trackers up in either order
TrackerLogConfigs ==
    [FileOpens : {TRUE},
     Pattern : {PatternM},
     Command : [Program : {"touch"}],
     Timeout : {0, Interval},
     TimeoutOnce : {FALSE},
     TimeoutCommand : [Program : {"touch"}]]

\* A tracker without a timeout whose pattern, ^Z, none of the lines matches.
QuietTracker ==
    [FileOpens |-> TRUE,
     Pattern |-> [valid |-> TRUE, prefix |-> <<"Z">>],
     Command |-> [Program |-> "touch"],
     Timeout |-> 0,
     TimeoutOnce |-> FALSE,
     TimeoutCommand |-> [Program |-> ""]]

\* The two trackers: the first takes its configuration from
\* TrackerLogConfigs, the second is the quiet one.
TrackerIds == {1, 2}

InitTracker ==
    /\ NoParse
    /\ now = 0
    /\ last = NoEvent
    /\ generation = 1 /\ NoGen2
    /\ config \in {<<lc, QuietTracker>> : lc \in TrackerLogConfigs}
    /\ trackers = <<>>
    /\ ltTicker = [t \in DOMAIN config |-> 0]
    /\ ltTimeoutChannel = [t \in DOMAIN config |-> 0]
    /\ tickers = [t \in DOMAIN config |-> EmptyPool]
    /\ timedOut = [t \in DOMAIN config |-> FALSE]
    /\ ltOnClose \in [DOMAIN config -> BOOLEAN]
    /\ tpc = [t \in DOMAIN config |-> "start"]
    /\ tail = [t \in DOMAIN config |-> "open"]
    /\ stopSignal = FALSE
    /\ stopped = FALSE
    /\ monPc = [at |-> "none", i |-> 1]
    /\ stopPc = "owner"
    /\ firingsSinceMatch = [e \in DOMAIN tickers |-> 0]
    /\ launchesSinceMatch = [e \in DOMAIN tickers |-> 0]
    /\ span = [e \in DOMAIN tickers |-> [open |-> "start", at |-> 0]]

\* close(closeChannel)
OwnerClose ==
    /\ generation = 1
    /\ stopPc = "owner"
    /\ ~stopSignal
    /\ stopSignal' = TRUE
    /\ last' = NoEvent
    /\ UNCHANGED <<G1Frame, tickers, firingsSinceMatch, launchesSinceMatch, span, trackers,
                   ltTicker, ltTimeoutChannel, timedOut, tpc, tail, stopped, monPc, stopPc>>

\* lt.Cleanup()
OwnerCleanup(t) ==
    /\ generation = 1
    /\ stopPc = "owner"
    /\ tail[t] = "open"
    /\ tickers' = [tickers EXCEPT ![t] =
                      IF ltTicker[t] # 0 THEN TickerStop(@, ltTicker[t]) ELSE @]
    /\ ltTicker' = [ltTicker EXCEPT ![t] = TickerAfterCleanup(@)]
    /\ tail' = [tail EXCEPT ![t] = "cleaned"]
    /\ last' = NoEvent
    /\ UNCHANGED <<G1Frame, firingsSinceMatch, launchesSinceMatch, span, trackers,
                   ltTimeoutChannel, timedOut, tpc, stopSignal, stopped, monPc, stopPc>>

\* The clock runs for one period: long enough for a tick to be waiting when
\* the loop ends.
NextTracker ==
    \/ Tick(Interval)
    \/ \E e \in DOMAIN tickers : \E id \in 1..MaxTickers : TickerFire(e, id)
    \/ \E t \in Trackers : TrackInit(t)
    \/ \E t \in Trackers : \E line \in Lines : \E ok \in BOOLEAN : TLine(t, line, ok)
    \/ \E t \in Trackers : \E ok \in BOOLEAN : TTimeout(t, ok)
    \/ \E t \in Trackers : TStop(t)
    \/ OwnerClose
    \/ \E t \in Trackers : OwnerCleanup(t)

SpecTracker == InitTracker /\ [][NextTracker]_vars

\* The Go scheduler runs every runnable goroutine, and a select picks at
\* random among its ready cases: a Track goroutine that can start does start,
\* and one whose stop case stays ready takes it in the end.
FairSpecTracker ==
    /\ SpecTracker
    /\ \A t \in TrackerIds : WF_vars(TrackInit(t)) /\ WF_vars(TStop(t))

\* The entries of the Monitor's configuration whose file opens and whose
\* pattern compiles.
Trackable == {t \in Trackers : config[t].FileOpens /\ config[t].Pattern.valid}
\* seq lists the members of S in increasing order.
ListsInOrder(seq, S) ==
    /\ {seq[i] : i \in DOMAIN seq} = S
    /\ \A i, j \in DOMAIN seq : i < j => seq[i] < seq[j]
\* A Track goroutine was launched for entry t.
Launched(t) == tpc[t] # "none"
\* Monitor.Start has left its loop over the configuration.
LoopOver == monPc.at # "create"

C13_StopReturnsAfterEveryCleanup ==
    /\ monPc.at \in {"cleanup", "returned"} => stopSignal /\ trackers # <<>>
    /\ trackers # <<>> => monPc.at # "error"
    /\ stopped => \A i \in DOMAIN trackers : tail[trackers[i]] = "cleaned"
    /\ monPc.at = "returned" => stopped
    /\ stopPc = "returned" =>
           /\ stopped
           /\ \A i \in DOMAIN trackers : tail[trackers[i]] = "cleaned"

C13_Witness ==
    /\ stopPc = "returned"
    /\ monPc.at = "returned"
    /\ Len(trackers) = 2
    /\ \A i \in DOMAIN trackers : tail[trackers[i]] = "cleaned"

\* C19: createTracker yields a LogTracker exactly when the tail opens and the
\* pattern compiles; Monitor.Start launches and retains a Track goroutine for
\* exactly those entries, in order, whatever the other entries do.
C19_TracksExactlyTheConstructibleEntries ==
    /\ \A t \in Trackers : Launched(t) => t \in Trackable
    /\ \A t \in Trackers : (t < monPc.i \/ LoopOver) => (Launched(t) <=> t \in Trackable)
    /\ LoopOver => ListsInOrder(trackers, Trackable)
    /\ \A i \in DOMAIN trackers : Launched(trackers[i])

C19_Witness ==
    /\ LoopOver
    /\ Len(config) = 2
    /\ config[1].FileOpens /\ ~config[1].Pattern.valid
    /\ trackers = <<2>>
    /\ tpc[1] = "none" /\ tpc[2] = "loop"
    /\ THandled(2, "line") /\ Calls(last.effects, "OnPattern") = 1

\* The latest step was LogTracker t's run loop handling a line, a timer firing
\* or the stop signal.
TrackHandled(t) == last.gen = 1 /\ last.unit = t /\ last.kind \in {"line", "timer", "stop"}

\* C14: once the shared StopSignal is closed every Track loop bound to it
\* takes the stop case in the end, calls OnClose exactly once when it is set
\* (and never otherwise), and is over for good: it handles no line and no timer
\* firing after that.
C14_StopSignalEndsEveryTrackLoop ==
    /\ \A t \in TrackerIds :
           (stopSignal /\ tpc[t] \in {"start", "loop"}) ~> (tpc[t] = "returned")
    /\ [](\A t \in TrackerIds :
              THandled(t, "stop") =>
                  /\ stopSignal
                  /\ tpc[t] = "returned"
                  /\ Calls(last.effects, "OnClose") = (IF ltOnClose[t] THEN 1 ELSE 0)
                  /\ Len(last.effects) = Calls(last.effects, "OnClose"))
    /\ [](\A t \in TrackerIds :
              (THandled(t, "line") \/ THandled(t, "timer")) => tpc[t] = "loop")
    /\ [][\A t \in TrackerIds :
              tpc[t] = "returned" => (tpc'[t] = "returned" /\ ~TrackHandled(t)')]_vars

C14_Witness ==
    /\ THandled(2, "stop") /\ Calls(last.effects, "OnClose") = 1
    /\ tpc[1] = "returned" /\ ~ltOnClose[1]
    /\ ltTimeoutChannel[1] # 0
    /\ tickers[1][ltTimeoutChannel[1]].C # NoTick

\* Collection.Stop is done with Collector.Stop of the i-th retained collector.
StopReturned(i) == sigPc.at = "done" \/ sigPc.i > i \/ (sigPc.i = i /\ sigPc.at = "wgDone")
\* The ticker the collector holds, if any, is running.
TickerArmed(c) == cTicker[c] # 0 => tickers[c][cTicker[c]].state = "running"
TickerDisarmed(c) == cTicker[c] # 0 => tickers[c][cTicker[c]].state = "stopped"

\* C15: Collector.Stop goes in this order: the prospector's Stop has returned,
\* with every harvester worker of the collector shut down, before Done is
\* closed; the run loop has closed Stopped before the ticker is stopped; and
\* Stop returns only after all of that.
C15_CollectorStopOrder ==
    \A i \in DOMAIN collection.collectors :
        LET c == collection.collectors[i]
        IN  /\ Done[c] =>
                   /\ prospector[c] = "stopped"
                   /\ \A w \in Workers(c) : worker[c][w] = NoLine
            /\ (sigPc.i = i /\ sigPc.at \in {"wait", "prospectorStop", "prospectorWait"}) => ~Done[c]
            /\ ~Stopped[c] => TickerArmed(c)
            /\ StopReturned(i) =>
                   /\ prospector[c] = "stopped"
                   /\ Done[c]
                   /\ Stopped[c] /\ cpc[c] = "returned"
                   /\ TickerDisarmed(c)

C15_Witness ==
    /\ collection.collectors = <<1>>
    /\ sigPc.at = "done"
    /\ cTicker[1] = 2
    /\ tickers[1][2].state = "stopped"
    /\ Stopped[1] /\ Done[1] /\ prospector[1] = "stopped"

\* C16: Collection.LetRun, called after Collection.Start has returned, returns
\* only when every retained Collector has stopped for good: its run loop is
\* over and its Stop has returned; no run loop is still going when it returns.
C16_LetRunReturnsAfterEveryStop ==
    mainPc.at = "exited" =>
        /\ collection.collectors # <<>>
        /\ \A i \in DOMAIN collection.collectors :
               /\ cpc[collection.collectors[i]] = "returned"
               /\ Stopped[collection.collectors[i]]
               /\ StopReturned(i)
               /\ ~(sigPc.i = i /\ sigPc.at = "wgDone")

C16_Witness ==
    /\ mainPc.at = "exited"
    /\ collection.collectors = <<1, 2>>
    /\ cpc[1] = "returned" /\ cpc[2] = "returned"

\* The entries for which NewCollector has everything it needs.
Constructible ==
    {c \in DOMAIN configs :
        c \in DOMAIN rawConfigs /\ configs[c].Pattern.valid /\ rawConfigs[c].valid}
CreateFails == Len(configs) # Len(rawConfigs) \/ Constructible = {}

\* C17: CreateCollection returns an error and no Collection exactly when the
\* two inputs differ in length or no entry yields a Collector; otherwise the
\* Collection holds exactly the Collectors that could be constructed, in the
\* order of the configuration, whatever entries failed in between.
C17_CreateCollectionKeepsTheSuccesses ==
    collection # NoCollection =>
        IF CreateFails
        THEN collection.err # "" /\ collection.collectors = <<>>
        ELSE collection.err = "" /\ ListsInOrder(collection.collectors, Constructible)

C17_Witness ==
    /\ mainPc.at = "called"
    /\ Len(configs) = 2 /\ Len(rawConfigs) = 2
    /\ configs[1].Pattern.valid /\ ~rawConfigs[1].valid
    /\ collection = [err |-> "", collectors |-> <<2>>]

\* main is the caller of CreateCollection.
MainRuns == mainPc.at \notin {"call", "called"}
\* No Collector runs, the signal handler has not begun Collection.Stop, and
\* the latest step started no command.
NothingStarted ==
    /\ \A c \in DOMAIN configs :
           cpc[c] = "idle" /\ prospector[c] \in {"none", "new"} /\ ~Done[c] /\ ~Stopped[c]
    /\ sigPc.at = "wait"
    /\ wg = 0
    /\ last.effects = <<>>

\* C20: when ParseConfigFile or CreateCollection fails, main exits with
\* status 1, and up to the exit no Collector is started, the signal handler
\* calls no Stop and no command is started.
C20_FailedStartupExitsOne ==
    /\ (MainRuns /\ (parseErr \/ CreateFails)) =>
           /\ mainPc.at \in {"parse", "create", "exit1"}
           /\ NothingStarted
    /\ parseErr => mainPc.at \in {"parse", "exit1"} /\ collection = NoCollection
    /\ mainPc.at = "exit1" => (parseErr \/ CreateFails)

C20_Witness ==
    /\ mainPc.at = "exit1"
    /\ ~parseErr
    /\ Len(configs) = 2
    /\ ~configs[1].Pattern.valid
    /\ configs[2].Pattern.valid /\ ~rawConfigs[2].valid
    /\ collection.err = "No Collectors created"

\* The signal handler goroutine has received a signal.
SignalDelivered == sigPc.at \notin {"wait", "none"}
\* main has returned from LetRun with every retained Collector stopped.
CleanExit ==
    /\ mainPc.at = "exited"
    /\ sigPc.at # "panic"
    /\ \A c \in Collectors : Stopped[c] /\ cpc[c] = "returned"

\* C21: once a signal is delivered after the handler is installed, also
\* while Collection.Start is still running, Collection.Stop is called, every
\* Collector gets fully stopped, LetRun returns and the process exits cleanly.
C21_SignalLeadsToCleanExit == SignalDelivered ~> CleanExit

\* Nothing of a timer: no ticker held, none in the runtime, no firing handled
\* and no timeout command started.
NoTimer(e, ticker, channel) ==
    /\ ticker = 0 /\ channel = 0
    /\ tickers[e] = EmptyPool
    /\ firingsSinceMatch[e] = 0 /\ launchesSinceMatch[e] = 0

\* C22: an entry whose timeout (Generation 1) or timeout.interval
\* (Generation 2) is <= 0 has no timeout tracking: no ticker is armed, no timer
\* firing is handled, the timeout command is never started even when one is
\* configured, and the reset on a matching line leaves the timer state as it was.
C22_NoTimeoutTrackingWithoutInterval ==
    /\ \A c \in DOMAIN configs :
           configs[c].Timeout.Interval <= 0 =>
               /\ NoTimer(c, cTicker[c], cTimeoutChannel[c])
               /\ ~CHandled(c, "timer")
               /\ last.gen = 2 => Starts(last.effects, "timeout.command") = 0
    /\ \A t \in Trackers :
           config[t].Timeout <= 0 =>
               /\ NoTimer(t, ltTicker[t], ltTimeoutChannel[t])
               /\ ~THandled(t, "timer")
               /\ last.gen = 1 => Starts(last.effects, "timeoutCommand") = 0

C22_Witness ==
    \E c \in Collectors :
        /\ configs[c].Timeout.Interval < 0
        /\ TimeoutCommandSet(c)
        /\ CHandled(c, "line") /\ Calls(last.effects, "resetTimeout") = 1
        /\ now = MaxTime
        /\ tickers[c] = EmptyPool

\* The running tickers of entry e in the runtime.
Running(e) == {id \in 1..MaxTickers : tickers[e][id].state = "running"}

\* C23: the files of one Collector are one input: a matching line forwarded
\* by any of its harvester workers resets the collector's one timer, clears
\* its one timedOutOnce flag and starts its match command, whichever worker
\* (file) it came from.
C23_AnyWorkerResetsTheOneTimer ==
    \A c \in Collectors : \A w \in Workers(c) :
        (CHandled(c, "line") /\ last.worker = w /\ BeginsWithM(last.line)) =>
            /\ Calls(last.effects, "resetTimeout") = 1
            /\ Starts(last.effects, "command") = (IF configs[c].Command.Program # "" THEN 1 ELSE 0)
            /\ ~timedOutOnce[c]
            /\ firingsSinceMatch[c] = 0
            /\ span[c].at = now
            /\ cTicker[c] # 0 =>
                   /\ Running(c) = {cTicker[c]}
                   /\ cTimeoutChannel[c] = cTicker[c]
                   /\ tickers[c][cTicker[c]] =
                          [state |-> "running", period |-> configs[c].Timeout.Interval,
                           when |-> now + configs[c].Timeout.Interval, C |-> NoTick]

C23_Witness ==
    /\ CHandled(1, "line") /\ last.worker = 2 /\ BeginsWithM(last.line)
    /\ worker[1][1] # NoLine
    /\ configs[1].Timeout.Once
    /\ span[1].open = "matchAfterSuppress"
    /\ Running(1) = {cTicker[1]}

\* ---- two Collectors without a timeout, from signal.Notify in main to the
\* end of the process: Collection.Start, the harvester workers, a signal at
\* any moment from Start on, Collection.Stop
StartStopIds == {1, 2}

StartStopConfig ==
    [Pattern |-> PatternM,
     Command |-> [Program |-> "touch"],
     Timeout |-> [Command |-> [Program |-> ""], Interval |-> 0, Once |-> FALSE]]

InitStartStop ==
    /\ NoParse
    /\ now = 0
    /\ last = NoEvent
    /\ generation = 2 /\ NoGen1
    /\ configs = [c \in StartStopIds |-> StartStopConfig]
    /\ rawConfigs = [c \in DOMAIN configs |-> [valid |-> TRUE]]
    /\ parseErr = FALSE
    /\ collection = CreateCollection(configs, rawConfigs)
    /\ cTicker = [c \in DOMAIN configs |-> NewCollectorTicker(configs[c])]
    /\ cTimeoutChannel = cTicker
    /\ tickers = [c \in DOMAIN configs |-> NewCollectorTickers(configs[c], 0)]
    /\ timedOutOnce = [c \in DOMAIN configs |-> FALSE]
    /\ cpc = [c \in DOMAIN configs |-> "idle"]
    /\ Done = [c \in DOMAIN configs |-> FALSE]
    /\ Stopped = [c \in DOMAIN configs |-> FALSE]
    /\ prospector = [c \in DOMAIN configs |-> "new"]
    /\ worker = [c \in DOMAIN configs |-> [w \in 1..1 |-> NoLine]]
    /\ wg = 0
    /\ mainPc = [at |-> "notify", i |-> 1]
    /\ sigPc = [at |-> "wait", i |-> 1]
    /\ firingsSinceMatch = [e \in DOMAIN tickers |-> 0]
    /\ launchesSinceMatch = [e \in DOMAIN tickers |-> 0]
    /\ span = [e \in DOMAIN tickers |-> [open |-> "start", at |-> 0]]

NextStartStop ==
    \/ MainNotify
    \/ StartGoProcess
    \/ StartProspector
    \/ StartWgAdd
    \/ LetRun
    \/ Signal
    \/ StopProspector
    \/ StopProspectorWait
    \/ StopCloseDone
    \/ StopWaitStopped
    \/ StopWgDone
    \/ \E c \in Collectors : \E w \in Workers(c) : \E ev \in Events : OnEvent(c, w, ev)
    \/ \E c \in Collectors : \E w \in Workers(c) : \E ok \in BOOLEAN : CLine(c, w, ok)
    \/ \E c \in Collectors : CDone(c)

SpecStartStop == InitStartStop /\ [][NextStartStop]_vars

\* The Go scheduler runs every runnable goroutine: main, the signal handler
\* and each Collector.process go on whenever they can, and a select whose
\* line case stays ready takes it in the end.
FairSpecStartStop ==
    /\ SpecStartStop
    /\ WF_vars(MainNotify)
    /\ WF_vars(StartGoProcess) /\ WF_vars(StartProspector) /\ WF_vars(StartWgAdd)
    /\ WF_vars(LetRun)
    /\ WF_vars(StopProspector) /\ WF_vars(StopProspectorWait) /\ WF_vars(StopCloseDone)
    /\ WF_vars(StopWaitStopped) /\ WF_vars(StopWgDone)
    /\ \A c \in StartStopIds :
           /\ WF_vars(CDone(c))
           /\ WF_vars(\E ok \in BOOLEAN : CLine(c, 1, ok))

\* ---- two units side by side, each with a timeout and both commands: two
\* LogTrackers of one Monitor whose Track is about to start, or two running
\* Collectors of one Collection, with lines and timer firings for both
UnitIds == {1, 2}

UnitLogConfig(once) ==
    [FileOpens |-> TRUE,
     Pattern |-> PatternM,
     Command |-> [Program |-> "touch"],
     Timeout |-> Interval,
     TimeoutOnce |-> once,
     TimeoutCommand |-> [Program |-> "touch"]]

UnitCollectorConfig(once) ==
    [Pattern |-> PatternM,
     Command |-> [Program |-> "touch"],
     Timeout |-> [Command |-> [Program |-> "touch"], Interval |-> Interval, Once |-> once]]

\* The first unit runs its timeout command once, the second every time.
InitUnitsGen1 ==
    /\ generation = 1 /\ NoGen2
    /\ config = [t \in UnitIds |-> UnitLogConfig(t = 1)]
    /\ trackers = [t \in UnitIds |-> t]
    /\ ltTicker = [t \in DOMAIN config |-> 0]
    /\ ltTimeoutChannel = [t \in DOMAIN config |-> 0]
    /\ tickers = [t \in DOMAIN config |-> EmptyPool]
    /\ timedOut = [t \in DOMAIN config |-> FALSE]
    /\ ltOnClose = [t \in DOMAIN config |-> FALSE]
    /\ tpc = [t \in DOMAIN config |-> "start"]
    /\ tail = [t \in DOMAIN config |-> "open"]
    /\ stopSignal = FALSE
    /\ stopped = FALSE
    /\ monPc = [at |-> "wait", i |-> 1]
    /\ stopPc = "idle"

InitUnitsGen2 ==
    /\ generation = 2 /\ NoGen1
    /\ configs = [c \in UnitIds |-> UnitCollectorConfig(c = 1)]
    /\ rawConfigs = [c \in DOMAIN configs |-> [valid |-> TRUE]]
    /\ parseErr = FALSE
    /\ collection = CreateCollection(configs, rawConfigs)
    /\ cTicker = [c \in DOMAIN configs |-> NewCollectorTicker(configs[c])]
    /\ cTimeoutChannel = cTicker
    /\ tickers = [c \in DOMAIN configs |-> NewCollectorTickers(configs[c], 0)]
    /\ timedOutOnce = [c \in DOMAIN configs |-> FALSE]
    /\ cpc = [c \in DOMAIN configs |-> "run"]
    /\ Done = [c \in DOMAIN configs |-> FALSE]
    /\ Stopped = [c \in DOMAIN configs |-> FALSE]
    /\ prospector = [c \in DOMAIN configs |-> "started"]
    /\ worker = [c \in DOMAIN configs |-> [w \in 1..1 |-> NoLine]]
    /\ wg = Len(configs)
    /\ mainPc = [at |-> "letRun", i |-> 1]
    /\ sigPc = [at |-> "wait", i |-> 1]

InitUnits ==
    /\ NoParse
    /\ now = 0
    /\ last = NoEvent
    /\ InitUnitsGen1 \/ InitUnitsGen2
    /\ firingsSinceMatch = [e \in DOMAIN tickers |-> 0]
    /\ launchesSinceMatch = [e \in DOMAIN tickers |-> 0]
    /\ span = [e \in DOMAIN tickers |-> [open |-> "start", at |-> 0]]

NextUnits ==
    \/ Tick(2 * Interval)
    \/ \E e \in DOMAIN tickers : \E id \in 1..MaxTickers : TickerFire(e, id)
    \/ \E c \in Collectors : \E w \in Workers(c) : \E s \in Lines : OnEvent(c, w, StrMessage(s))
    \/ \E c \in Collectors : \E w \in Workers(c) : \E ok \in BOOLEAN : CLine(c, w, ok)
    \/ \E c \in Collectors : \E ok \in BOOLEAN : CTimeout(c, ok)
    \/ \E t \in Trackers : TrackInit(t)
    \/ \E t \in Trackers : \E line \in Lines : \E ok \in BOOLEAN : TLine(t, line, ok)
    \/ \E t \in Trackers : \E ok \in BOOLEAN : TTimeout(t, ok)

SpecUnits == InitUnits /\ [][NextUnits]_vars

\* ------------------------------------------- the parsers on their own
\* The paths an entry may name, with the value the user gives each.
AppFields ==
    LET base == (<<"paths">> :> "/var/a.log") @@ (<<"pattern">> :> "^M") @@
                (<<"command", "program">> :> "touch")
        timeout(unit) == (<<"timeout", "interval">> :> [n |-> 2, unit |-> unit]) @@
                         (<<"timeout", "once">> :> TRUE) @@
                         (<<"timeout", "command", "program">> :> "logger")
    IN  {base, base @@ timeout("s"), base @@ timeout("soon")}

UserScanValue(path) ==
    CASE path = <<"type">> -> "stdin"
      [] path = <<"tail_files">> -> FALSE
      [] path = <<"backoff">> -> [n |-> 5, unit |-> "ms"]
      [] path = <<"backoff_factor">> -> 2
      [] path = <<"max_backoff">> -> [n |-> 7, unit |-> "s"]
      [] path = <<"scan_frequency">> -> [n |-> 9, unit |-> "s"]

\* The scanning fields an entry names: none, one of them, all of them, or a
\* backoff the validation refuses.
ScanFieldsGiven ==
    LET given(paths) == [p \in paths |-> UserScanValue(p)]
    IN  {given({})} \cup {given({p}) : p \in ScanPaths} \cup {given(ScanPaths)}
        \cup {(<<"backoff">> :> [n |-> 0, unit |-> "ms"])}

\* A field of the prospector that is neither ours nor a scanning default.
OtherFields == {[p \in {} |-> TRUE], (<<"close_inactive">> :> [n |-> 1, unit |-> "h"])}

Notations == {"nested", "dotted", "mixed"}

Front(path) == SubSeq(path, 1, Len(path) - 1)

\* One key of an entry as the user writes it: inside its enclosing blocks
\* (nested), as one dotted key (dotted), or as a dotted key inside the
\* outermost block (mixed).
Written(path, value, notation) ==
    CASE notation = "nested" -> [under |-> Front(path), key |-> <<path[Len(path)]>>, value |-> value]
      [] notation = "dotted" -> [under |-> <<>>, key |-> path, value |-> value]
      [] notation = "mixed" ->
            IF Len(path) = 1 THEN [under |-> <<>>, key |-> path, value |-> value]
            ELSE [under |-> <<path[1]>>, key |-> Tail(path), value |-> value]

WrittenEntry(fields, notation) == {Written(p, fields[p], notation) : p \in DOMAIN fields}

EntryFields == {a @@ s @@ o : a \in AppFields, s \in ScanFieldsGiven, o \in OtherFields}

YamlEntries == {WrittenEntry(f, n) : f \in EntryFields, n \in Notations}

DocumentLengths == {1, 2}

Documents == UNION {[1..n -> YamlEntries] : n \in DocumentLengths}

\* The entries of a Generation 1 file: the timeout is a number or a word.
LogConfigEntries ==
    [file : {"/var/a.log"}, pattern : {"^M"},
     timeout : {[int |-> TRUE, n |-> 30], [int |-> TRUE, n |-> 0], [int |-> FALSE, n |-> 0]}]

LogConfigFiles ==
    [readable : BOOLEAN, wellFormed : BOOLEAN,
     yaml : UNION {[1..n -> LogConfigEntries] : n \in {0} \cup DocumentLengths}]

InitParse ==
    /\ now = 0
    /\ last = NoEvent
    /\ generation \in {1, 2}
    /\ NoGen1 /\ NoGen2
    /\ tickers = <<>>
    /\ firingsSinceMatch = <<>> /\ launchesSinceMatch = <<>> /\ span = <<>>
    /\ DefaultProspectorConfig = ProspectorDefaults
    /\ parsed = NotParsed
    /\ \/ /\ generation = 2
          /\ \/ data \in [readable : {TRUE}, wellFormed : {TRUE}, yaml : Documents]
             \/ data \in [readable : BOOLEAN, wellFormed : BOOLEAN,
                          yaml : [1..1 -> YamlEntries]]
       \/ /\ generation = 1
          /\ data \in LogConfigFiles

\* ParseConfigFile of Generation 2 is called on the file.
ParseFile ==
    /\ generation = 2
    /\ ~parsed.called
    /\ LET result == ParseConfigFile(data, DefaultProspectorConfig)
       IN  /\ parsed' = [called |-> TRUE, config |-> result.config,
                         rawArray |-> result.rawArray, err |-> result.err]
           /\ DefaultProspectorConfig' = result.default
    /\ UNCHANGED <<generation, now, tickers, ghostvars, gen2vars, gen1vars, data>>

\* ParseConfigFile of Generation 1 is called on the file.
ParseFileGen1 ==
    /\ generation = 1
    /\ ~parsed.called
    /\ parsed' = ParseConfigFileGen1(data)
    /\ UNCHANGED <<generation, now, tickers, ghostvars, gen2vars, gen1vars, data,
                   DefaultProspectorConfig>>

NextParse == ParseFile \/ ParseFileGen1

SpecParse == InitParse /\ [][NextParse]_vars

\* ------------------------------------------- claims on the parsers
\* The value of a scanning field of a raw entry, as the prospector reads it.
ScanValue(rawConfig, path) ==
    IF path \in {<<"backoff">>, <<"max_backoff">>, <<"scan_frequency">>}
    THEN ParseDuration(rawConfig[path]) ELSE rawConfig[path]

\* The defaults the overlay is documented to give: type log, tail_files true,
\* backoff 200ms, backoff_factor 1, max_backoff 1s, scan_frequency 3s.
DocumentedDefault(path) ==
    CASE path = <<"type">> -> "log"
      [] path = <<"tail_files">> -> TRUE
      [] path = <<"backoff">> -> 200
      [] path = <<"backoff_factor">> -> 1
      [] path = <<"max_backoff">> -> 1000
      [] path = <<"scan_frequency">> -> 3000

\* The entry i of the document as the user wrote it, path by path.
UserEntry(i) == [p \in {it.under \o it.key : it \in data.yaml[i]} |->
                    (CHOOSE it \in data.yaml[i] : it.under \o it.key = p).value]

Overlaid == generation = 2 /\ parsed.called /\ ~parsed.err

\* C24: after the scanning-defaults overlay every raw entry holds, for each
\* of the six scanning fields, the user's value when the entry names the
\* field and the documented default otherwise, every other field of the
\* entry is as the user wrote it, and the shared default record is the same
\* before and after every parse, failed ones included.
C24_OverlayKeepsUserValuesAndDefaults ==
    /\ generation = 2 =>
          /\ DefaultProspectorConfig.Type = DocumentedDefault(<<"type">>)
          /\ DefaultProspectorConfig.TailFiles = DocumentedDefault(<<"tail_files">>)
          /\ DefaultProspectorConfig.Backoff = DocumentedDefault(<<"backoff">>)
          /\ DefaultProspectorConfig.BackoffFactor = DocumentedDefault(<<"backoff_factor">>)
          /\ DefaultProspectorConfig.MaxBackoff = DocumentedDefault(<<"max_backoff">>)
          /\ DefaultProspectorConfig.ScanFrequency = DocumentedDefault(<<"scan_frequency">>)
    /\ Overlaid =>
          /\ Len(parsed.rawArray) = Len(data.yaml)
          /\ \A i \in DOMAIN parsed.rawArray :
                LET after == parsed.rawArray[i]
                    user == UserEntry(i)
                IN  /\ DOMAIN after = DOMAIN user \cup ScanPaths
                    /\ \A p \in ScanPaths :
                          ScanValue(after, p) = IF p \in DOMAIN user THEN ScanValue(user, p)
                                                ELSE DocumentedDefault(p)
                    /\ \A p \in DOMAIN user \ ScanPaths : after[p] = user[p]

\* Two entries were overlaid: the first names backoff and a field of the
\* prospector, the second names no scanning field and gets the defaults.
C24_Witness ==
    /\ Overlaid
    /\ Len(parsed.rawArray) = 2
    /\ DOMAIN UserEntry(1) \cap ScanPaths = {<<"backoff">>}
    /\ <<"close_inactive">> \in DOMAIN UserEntry(1)
    /\ ScanValue(parsed.rawArray[1], <<"backoff">>) = 5
    /\ parsed.rawArray[1][<<"close_inactive">>] = [n |-> 1, unit |-> "h"]
    /\ DOMAIN UserEntry(2) \cap ScanPaths = {}
    /\ ScanValue(parsed.rawArray[2], <<"backoff">>) = 200
    /\ parsed.rawArray[2][<<"tail_files">>] = TRUE

\* The file with every entry written again in one notation.
Rewritten(notation) ==
    [data EXCEPT !.yaml = [i \in DOMAIN data.yaml |-> WrittenEntry(UserEntry(i), notation)]]

LoadFails ==
    \/ ~data.readable
    \/ ~data.wellFormed
    \/ \E i \in DOMAIN data.yaml : ~data.yaml[i].timeout.int

\* C26: when the file cannot be read or its content cannot be decoded, the
\* Generation 1 ParseConfigFile returns an error and a Config with no entry.
C26_NoPartialResultOnFailure ==
    (generation = 1 /\ parsed.called /\ LoadFails) =>
        /\ parsed.err
        /\ parsed.config = <<>>

\* The event started a command and the start failed.
FailedStart(ev) == \E i \in DOMAIN ev.effects : ev.effects[i].op = "Start" /\ ~ev.effects[i].ok

\* C27: a run loop that handled a line or a timer firing whose command could
\* not be started is left as a started command leaves it: the start is tried
\* once, the loop is still running, the process is alive, a matching line has
\* cleared the already-timed-out flag and replaced the timer, a firing has
\* set the flag, taken the tick and left the timer alone.
C27_FailedStartChangesNothingElse ==
    [][(last'.kind \in {"line", "timer"} /\ FailedStart(last'))
       => LET u == last'.unit
          IN  /\ Calls(last'.effects, "Start") = 1
              /\ Alive'
              /\ last'.gen = 2 =>
                    /\ cpc[u] = "run" /\ cpc' = cpc
                    /\ last'.kind = "line" =>
                          /\ ~timedOutOnce'[u]
                          /\ [ticker |-> cTicker'[u], timeoutChannel |-> cTimeoutChannel'[u],
                              pool |-> tickers'[u]] =
                                resetTimeout(TimerState(u), configs[u].Timeout.Interval, now)
                    /\ last'.kind = "timer" =>
                          /\ timedOutOnce'[u]
                          /\ cTicker' = cTicker /\ cTimeoutChannel' = cTimeoutChannel
                          /\ tickers' = [tickers EXCEPT ![u][cTimeoutChannel[u]].C = NoTick]
              /\ last'.gen = 1 =>
                    /\ tpc[u] = "loop" /\ tpc' = tpc
                    /\ last'.kind = "line" =>
                          /\ ~timedOut'[u]
                          /\ [ticker |-> ltTicker'[u], timeoutChannel |-> ltTimeoutChannel'[u],
                              pool |-> tickers'[u]] =
                                ResetTimeout(LtTimerState(u), config[u].Timeout, now)
                    /\ last'.kind = "timer" =>
                          /\ timedOut'[u]
                          /\ ltTicker' = ltTicker /\ ltTimeoutChannel' = ltTimeoutChannel
                          /\ tickers' = [tickers EXCEPT ![u][ltTimeoutChannel[u]].C = NoTick]]_vars

\* The second firing since the match was handled by a Collector whose timeout
\* command could not be started: the loop went on after the first firing and
\* goes on now.
C27_Witness ==
    /\ last.gen = 2 /\ last.kind = "timer" /\ FailedStart(last)
    /\ firingsSinceMatch[last.unit] = 2
    /\ launchesSinceMatch[last.unit] = 2
    /\ cpc[last.unit] = "run"
    /\ timedOutOnce[last.unit]

\* C28: a worker whose OnEvent is sending a line on collector.lines is
\* released by nothing but the run loop of its Collector receiving that very
\* line, which it then matches against the pattern; until then the worker
\* holds the one line it is sending, so no line is dropped and none is
\* replaced while it waits.
C28_SendCompletesOnReceive ==
    [][\A c \in Collectors : \A w \in Workers(c) :
          worker[c][w] # NoLine =>
             \/ worker'[c][w] = worker[c][w]
             \/ /\ worker'[c][w] = NoLine
                /\ last'.gen = 2 /\ last'.unit = c /\ last'.kind = "line"
                /\ last'.worker = w
                /\ last'.line = worker[c][w]
                /\ (Calls(last'.effects, "resetTimeout") = 1) = BeginsWithM(worker[c][w])
                /\ cpc[c] = "run"]_vars

\* The run loop received the line the second worker was sending, a line that
\* does not match, while the first worker is still held with another line.
C28_Witness ==
    /\ CHandled(1, "line") /\ last.worker = 2 /\ ~BeginsWithM(last.line)
    /\ worker[1][2] = NoLine
    /\ worker[1][1] # NoLine /\ worker[1][1] # last.line

\* The step is the run loop of unit u of this generation handling one line
\* or one timer firing.
LoopHandles(gen, u) ==
    last'.gen = gen /\ last'.unit = u /\ last'.kind \in {"line", "timer"}

\* C29: the already-timed-out flag and the timer of a Collector or a
\* LogTracker are written by its own run loop only, one handled event (a
\* line or a timer firing) in a step, each event handled whole before the
\* next is taken; no worker, no stop, no cleanup and no other unit writes
\* them, so the writes are in the order of the loop's events.
C29_FlagAndTimerWrittenByTheLoopOnly ==
    [][/\ \A c \in Collectors :
             (cpc[c] = "run" /\ <<timedOutOnce[c], cTicker[c], cTimeoutChannel[c]>> #
                                <<timedOutOnce'[c], cTicker'[c], cTimeoutChannel'[c]>>)
                => LoopHandles(2, c)
       /\ \A t \in Trackers :
             (<<timedOut[t], ltTicker[t], ltTimeoutChannel[t]>> #
              <<timedOut'[t], ltTicker'[t], ltTimeoutChannel'[t]>>)
                => \/ tpc[t] = "loop" /\ LoopHandles(1, t)
                   \/ tpc[t] = "start" /\ tpc'[t] = "loop"
       /\ \A e \in DOMAIN tickers :
             (last'.kind \in {"line", "timer"} /\ last'.unit # e) =>
                 /\ tickers'[e] = tickers[e]
                 /\ firingsSinceMatch'[e] = firingsSinceMatch[e]]_vars

\* A timer firing was handled while a worker is held with a line for the same
\* Collector: the line waits for the next round of the loop.
C29_Witness ==
    /\ last.gen = 2 /\ last.kind = "timer"
    /\ timedOutOnce[last.unit]
    /\ \E w \in Workers(last.unit) : worker[last.unit][w] # NoLine /\ BeginsWithM(worker[last.unit][w])
    /\ cTimeoutChannel[last.unit] # 0
    /\ tickers[last.unit][cTimeoutChannel[last.unit]].C = NoTick

\* LogTracker.Cleanup has returned for tracker t.
CleanedUp(t) == tail[t] = "cleaned"

\* C30: once Cleanup has returned for a LogTracker none of its tickers is
\* running, whatever its Track loop did before, during or after the call, and
\* no timer firing of it is handled any more.
C30_NoArmedTimerAfterCleanup ==
    \A t \in Trackers :
        (generation = 1 /\ CleanedUp(t)) =>
            /\ Running(t) = {}
            /\ ~THandled(t, "timer")

\* Collection.Start has launched a run loop or has gone further.
StartBegun ==
    \/ mainPc.at \in {"prospectorStart", "wgAdd", "letRun", "exited"}
    \/ mainPc.at = "goProcess" /\ mainPc.i > 1

\* C31: the counter of Collection.wg is never negative, and whenever it is
\* zero once Collection.Start has begun no Collector's run loop is running,
\* also when Collection.Stop runs while Start is still going over the
\* collectors.
C31_CounterCoversEveryRunningLoop ==
    generation = 2 =>
        /\ wg >= 0
        /\ (StartBegun /\ wg = 0) => \A c \in Collectors : cpc[c] # "run"

\* C32: when Monitor.Stop has returned the Track loop of every retained
\* LogTracker has returned, and no line and no timer firing (so no OnPattern,
\* no OnTimeout and no command) is handled any more.
C32_StopReturnsAfterEveryLoop ==
    (generation = 1 /\ stopPc = "returned") =>
        /\ \A i \in DOMAIN trackers : tpc[trackers[i]] = "returned"
        /\ ~(last.gen = 1 /\ last.kind \in {"line", "timer"})

\* C33: when Collector.Stop has returned the Collector's run loop has
\* returned, Stopped is closed, none of its tickers is running and it handles
\* no line and no firing (so it starts no command) any more; Stopped is closed
\* once, by the loop as it returns, and stays closed; and a receive on
\* Stopped, which is all Collector.LetRun does, returns exactly when the loop
\* has returned.
C33_CollectorStopEndsTheLoop ==
    /\ [](\A i \in DOMAIN collection.collectors :
             LET c == collection.collectors[i]
             IN  /\ StopReturned(i) =>
                        /\ cpc[c] = "returned"
                        /\ Stopped[c]
                        /\ Running(c) = {}
                        /\ ~(CHandled(c, "line") \/ CHandled(c, "timer"))
                 /\ StoppedReceived(Stopped[c]) <=> cpc[c] = "returned")
    /\ [][\A c \in Collectors :
             /\ Stopped[c] => Stopped'[c]
             /\ (last'.gen = 2 /\ last'.unit = c /\ last'.kind = "done") =>
                    /\ ~Stopped[c] /\ Stopped'[c]
                    /\ Calls(last'.effects, "close(Stopped)") = 1
             /\ (~Stopped[c] /\ Stopped'[c]) =>
                    (last'.gen = 2 /\ last'.unit = c /\ last'.kind = "done")]_vars

\* Collector.Stop has returned for a Collector whose timeout command had
\* been started and whose timer had been replaced by a matching line.
C33_Witness ==
    /\ generation = 2
    /\ collection.collectors = <<1>>
    /\ StopReturned(1)
    /\ cpc[1] = "returned" /\ Stopped[1]
    /\ cTicker[1] # 0 /\ Running(1) = {}
    /\ timedOutOnce[1]
    /\ launchesSinceMatch[1] >= 1
    /\ span[1].open # "start"

\* C34: a prospector is started only when the run loop of its Collector has
\* been launched, so a worker that forwards a line finds the loop launched;
\* Done is closed only when no worker is sending; and a worker held in
\* OnEvent is released in the end: the loop receives its line.
C34_NoWorkerLeftBlocked ==
    /\ [](\A c \in Collectors :
             /\ prospector[c] = "started" => cpc[c] # "idle"
             /\ \A w \in Workers(c) :
                   worker[c][w] # NoLine => (cpc[c] = "run" /\ ~Done[c]))
    /\ \A c \in StartStopIds :
           (c \in Collectors /\ worker[c][1] # NoLine)
               ~> (c \in Collectors /\ worker[c][1] = NoLine)

\* Collection.Stop is waiting for the prospector of a Collector to stop
\* while a worker of it is held in OnEvent with a line.
C34_Witness ==
    /\ generation = 2
    /\ sigPc.at = "prospectorWait"
    /\ prospector[Stopping] = "stopping"
    /\ worker[Stopping][1] # NoLine
    /\ cpc[Stopping] = "run" /\ ~Done[Stopping]

\* C35: the signal handler calls Collection.Stop once: it never goes back to
\* reading sigs, and Collection.Stop goes over the collectors in order;
\* Done of a Collector is closed by Collector.Stop only, while it is open,
\* and Stopped by the run loop only, while it is open; stopSignal of the
\* Monitor is closed by Monitor.Stop only, while it is open, and stopped by
\* Monitor.Start only, while it is open; a closed channel stays closed.
C35_EverySignalClosedOnce ==
    [][/\ sigPc.at # "wait" => sigPc'.at # "wait"
       /\ (sigPc.at # "wait" /\ sigPc'.at # "done") => sigPc'.i >= sigPc.i
       /\ \A c \in Collectors :
              /\ Done[c] => Done'[c]
              /\ Stopped[c] => Stopped'[c]
              /\ (~Done[c] /\ Done'[c]) =>
                     (sigPc.at = "closeDone" /\ Stopping = c /\ sigPc'.at = "waitStopped")
              /\ (~Stopped[c] /\ Stopped'[c]) => (cpc[c] = "run" /\ cpc'[c] = "returned")
              /\ (cpc[c] = "run" /\ cpc'[c] = "returned") => ~Stopped[c]
       /\ (sigPc.at = "closeDone" /\ sigPc'.at = "waitStopped") => ~Done[Stopping]
       /\ stopSignal => stopSignal'
       /\ stopped => stopped'
       /\ (stopPc = "idle" /\ stopPc' # "idle") => ~stopSignal
       /\ (~stopSignal /\ stopSignal') => (stopPc = "idle" /\ stopPc' = "waitStopped")
       /\ (monPc.at = "cleanup" /\ monPc'.at = "returned") => ~stopped
       /\ (~stopped /\ stopped') => (monPc.at = "cleanup" /\ monPc'.at = "returned")]_vars

\* The handler has ended after Collection.Stop went over the Collectors:
\* Done and Stopped of each are closed.
C35_Witness ==
    /\ generation = 2
    /\ sigPc.at = "done"
    /\ Len(collection.collectors) >= 1
    /\ \A c \in Collectors : Done[c] /\ Stopped[c] /\ cpc[c] = "returned"

\* What a unit keeps between events: its flag, its timer and its tickers,
\* and the firings and command launches counted for it.
UnitState(g, u) ==
    [flag |-> IF g = 1 THEN timedOut[u] ELSE timedOutOnce[u],
     ticker |-> IF g = 1 THEN ltTicker[u] ELSE cTicker[u],
     channel |-> IF g = 1 THEN ltTimeoutChannel[u] ELSE cTimeoutChannel[u],
     pool |-> tickers[u],
     firings |-> firingsSinceMatch[u],
     launches |-> launchesSinceMatch[u],
     span |-> span[u]]

\* C36: a step in which one LogTracker or one Collector handles a line or a
\* timer firing leaves the flag, the timer, the tickers and the counted
\* firings and launches of every other unit as they were.
C36_UnitsAreIndependent ==
    [][\A u \in UnitIds : \A v \in UnitIds \ {u} :
          (last'.gen = generation /\ last'.unit = u /\ last'.kind \in {"line", "timer"}) =>
              /\ (IF generation = 1 THEN timedOut'[v] ELSE timedOutOnce'[v]) = UnitState(generation, v).flag
              /\ (IF generation = 1 THEN ltTicker'[v] ELSE cTicker'[v]) = UnitState(generation, v).ticker
              /\ (IF generation = 1 THEN ltTimeoutChannel'[v] ELSE cTimeoutChannel'[v])
                     = UnitState(generation, v).channel
              /\ tickers'[v] = UnitState(generation, v).pool
              /\ firingsSinceMatch'[v] = UnitState(generation, v).firings
              /\ launchesSinceMatch'[v] = UnitState(generation, v).launches
              /\ span'[v] = UnitState(generation, v).span]_vars

\* The second LogTracker of a Monitor has just handled a firing and started
\* its timeout command, while the first, which runs its timeout command
\* once, has its flag down after a matching line and its own timer armed.
C36_Witness ==
    /\ generation = 1
    /\ THandled(2, "timer")
    /\ Calls(last.effects, "Start") = 1
    /\ timedOut[2] /\ ~timedOut[1]
    /\ firingsSinceMatch[1] = 0 /\ span[1].open # "start"
    /\ ltTicker[1] # 0 /\ ltTicker[2] # 0

\* C37: Monitor.Stop, called once at any moment from the construction of
\* the Monitor on, returns in the end when Monitor.Start retains a
\* LogTracker; when Start returns NoTrackedFilesError, stopped is never
\* closed and Stop never returns.
C37_StopReturnsIffSomethingIsTracked ==
    /\ (generation = 1 /\ stopPc = "waitStopped" /\ Trackable # {})
           ~> (stopPc = "returned" /\ stopped /\ Len(trackers) >= 1)
    /\ [](generation = 1 =>
             /\ monPc.at = "error" => Trackable = {}
             /\ (Trackable = {} /\ monPc.at # "create") => monPc.at = "error"
             /\ Trackable = {} => (~stopped /\ stopPc # "returned"))

\* Stop has returned before any Track goroutine got to run: of two entries
\* Start retained one.
C37_Witness ==
    /\ generation = 1
    /\ stopPc = "returned" /\ stopped
    /\ monPc.at = "returned"
    /\ Len(config) = 2 /\ Len(trackers) = 1
    /\ \A t \in Trackers : tpc[t] \in {"none", "start"}

\* C38: at most one ticker of a Collector is running, it is the one
\* collector.ticker refers to, its period is the configured interval and
\* the loop listens on its channel; while the loop runs a Collector built
\* with an interval has exactly that one running; a matching line leaves
\* the replacement due one interval from now with an empty channel; and a
\* Collector built without an interval never has a ticker.
C38_OneArmedTimer ==
    generation = 2 =>
        \A c \in Collectors :
            /\ Cardinality(Running(c)) <= 1
            /\ Running(c) \subseteq {cTicker[c]}
            /\ cTimeoutChannel[c] = cTicker[c]
            /\ \A id \in Running(c) : tickers[c][id].period = configs[c].Timeout.Interval
            /\ (cTicker[c] # 0 /\ cpc[c] = "run") => Running(c) = {cTicker[c]}
            /\ (CHandled(c, "line") /\ Calls(last.effects, "resetTimeout") = 1 /\ cTicker[c] # 0) =>
                   /\ tickers[c][cTicker[c]].when = now + configs[c].Timeout.Interval
                   /\ tickers[c][cTicker[c]].C = NoTick
            /\ configs[c].Timeout.Interval <= 0 => (cTicker[c] = 0 /\ tickers[c] = EmptyPool)

\* A matching line has just been handled after time went by: the
\* replacement is the only running ticker, in another slot than the ticker
\* armed at construction, which is gone.
C38_Witness ==
    /\ generation = 2
    /\ CHandled(1, "line") /\ Calls(last.effects, "resetTimeout") = 1
    /\ now > 0
    /\ cTicker[1] = 2 /\ Running(1) = {2}
    /\ tickers[1][1].state = "free"
    /\ tickers[1][2].when = now + Interval

\* Monitor.Start has called createTracker for entry t.
Constructed(t) == monPc.at # "create" \/ monPc.i > t

\* C39: when createTracker has yielded no LogTracker for an entry, nothing
\* of the entry is left: no Track goroutine, no ticker, and no open tail,
\* also when the tail was opened and the pattern then failed to compile.
C39_FailedConstructionLeavesNothing ==
    generation = 1 =>
        \A t \in Trackers :
            (Constructed(t) /\ \A i \in DOMAIN trackers : trackers[i] # t) =>
                /\ tpc[t] = "none"
                /\ tickers[t] = EmptyPool
                /\ tail[t] # "open"

====
